---- MODULE Spec2Model ----
(***************************************************************************)
(* Room-based live chat of uTube: the ConnectionManager singleton          *)
(* (backend/chat/manager.py) and the per-connection handler task           *)
(* chat_websocket (backend/routes/chat_routes.py).                         *)
(*                                                                         *)
(* One handler task runs per connection on a single asyncio event loop.    *)
(* A step of the model is what one task executes between two awaits: it    *)
(* resumes from the await it is suspended at (accept, a personal send, one *)
(* send of a broadcast, receive_text) and runs to the next one.            *)
(***************************************************************************)
EXTENDS Integers, Sequences, FiniteSets, TLC

\* ---------------------------------------------------------------- bounds
NConn == 2          \* connections (handler tasks) that may ever be opened
MaxFrames == 2      \* inbound frames handled in a run, over all connections
MaxPollFrames == 3  \* the same where only poll frames are sent (SpecPoll)
MaxChatFrames == 3  \* the same where only chat and slow_mode frames are sent (SpecSlow)
MaxStoreFrames == 3 \* the same where chats are written and deleted (SpecStore)
MaxCalls == 4       \* calls of the manager's methods in a run (SpecManager)
MaxLiveFrames == 2  \* the same in the runs with fair scheduling (SpecLive)
MaxClock == 20      \* largest value time.time() returns in a run
NSock == 3          \* websockets the manager's methods are called with directly

\* ------------------------------------------------------ program constants
SLOW_MODE_COOLDOWN == 5
DefaultDuration == 60
StartClock == 0     \* least value of time.time(): epoch seconds

Conns == 1..NConn
Sockets == Conns \cup 1..NSock       \* the websocket objects that may exist
RoomNames == {"alice"}
TwoRooms == {"alice", "bob"}         \* room keys of the direct calls
None == "None"                       \* Python None (absent identity)
Identities == {"alice", "bob", None} \* what validate_ws_token resolves to

\* --------------------------------------------------------- dict helpers
EmptyDict == [k \in {} |-> TRUE]
Put(d, k, v) == [x \in DOMAIN d \cup {k} |-> IF x = k THEN v ELSE d[x]]
Pop(d, k) == [x \in DOMAIN d \ {k} |-> d[x]]
Get(d, k, default) == IF k \in DOMAIN d THEN d[k] ELSE default

Range(s) == {s[i] : i \in DOMAIN s}
ConnsOf(l) == {l[i][1] : i \in DOMAIN l}

\* ------------------------------------------------------------ JSON values
\* A field of an inbound frame carries its JSON type, so that the handler's
\* behaviour on wrongly typed fields is what Python does with them.
JInt(n) == [t |-> "int", v |-> n]
JStr(s) == [t |-> "str", v |-> s]
JNull == [t |-> "null"]
JBad == [t |-> "bad"]               \* any value of a type the code does not expect
JLabel(s) == [t |-> "str", text |-> s]

JOption(s, n) == [t |-> "obj", text |-> s, votes |-> n]  \* {"text": s, "votes": n}
JOptionBare(s) == [t |-> "obj", text |-> s]               \* {"text": s}

\* ------------------------------------------------------------------ state
VARIABLES
  rooms,               \* manager.rooms: room -> list of <<websocket, username>>
  slow_mode,           \* manager.slow_mode: room -> bool
  last_message_times,  \* manager.last_message_times: room -> (username -> time)
  active_polls,        \* manager.active_polls: room -> poll
  pc,                  \* per handler task: the await it is suspended at
  streamer_username,   \* per handler: the room key of the URL
  username,            \* per handler: the authenticated identity or None
  is_creator,          \* per handler: username == streamer_username
  sending,             \* per handler: the personal event whose send is in flight
  bc,                  \* per handler: the broadcast call in progress
  closed,              \* per websocket: the transport is closed
  store,               \* the ChatMessage table: the rows persisted
  frames,              \* inbound frames handled so far
  now,                 \* last value returned by time.time()
  lastRecv,            \* the frame the last step received (history)
  cleanups,            \* per handler: times the cleanup of lines 297-302 ran (history)
  exitBy,              \* per handler: how the receive loop was left, and whether
                       \* the connection was still registered then (history)
  accepted,            \* per room: the votes vote_poll accepted for the poll
                       \* now running, as <<username, connection, index>> (history)
  admitted,            \* per room: username -> time of the user's last admission
                       \* by the cooldown since slow mode was turned on (history)
  expired,             \* per room: username -> time of the user's last admission
                       \* in a slow-mode period that has ended (history)
  lastCall,            \* the manager method the last step called directly, with
                       \* its arguments and result (history)
  started,             \* per room: the arguments of the start_poll call that
                       \* stored the poll now running (history)
  sent,                \* per handler, while it broadcasts for a frame: the events
                       \* in the order its code issues them, and the connections
                       \* each has been sent to (history)
  snap,                \* per connection: the options of the poll_update its join
                       \* replay sent it, for the poll now running (history)
  tally                 \* per connection: option index -> the POLL_VOTE events
                       \* sent to it after that poll_update (history)

mgrvars == <<rooms, slow_mode, last_message_times, active_polls>>
vars == <<rooms, slow_mode, last_message_times, active_polls, pc,
          streamer_username, username, is_creator, sending, bc, closed, store,
          frames, now, lastRecv, cleanups, exitBy, accepted, admitted, expired, lastCall,
          started, sent, snap, tally>>
delivered == <<sent, snap, tally>>

\* The manager's four dicts as one value, for the operators below.
Mgr == [rooms |-> rooms, slow_mode |-> slow_mode,
        last_message_times |-> last_message_times, active_polls |-> active_polls]

\* ------------------------------------------------- ConnectionManager (pure)
\* connect, after websocket.accept() returned.
connect(M, room, ws, uname) ==
  LET R == IF room \notin DOMAIN M.rooms THEN Put(M.rooms, room, <<>>) ELSE M.rooms
  IN [M EXCEPT !.rooms = Put(R, room, Append(R[room], <<ws, uname>>))]

\* disconnect that forgets the side tables of an emptied room.
disconnect_leaky(M, room, ws) ==
  IF room \in DOMAIN M.rooms
  THEN LET l == SelectSeq(M.rooms[room], LAMBDA p : p[1] # ws)
       IN IF l = <<>>
          THEN [M EXCEPT !.rooms = Pop(M.rooms, room)]
          ELSE [M EXCEPT !.rooms = Put(M.rooms, room, l)]
  ELSE M

disconnect(M, room, ws) ==
  IF room \in DOMAIN M.rooms
  THEN LET l == SelectSeq(M.rooms[room], LAMBDA p : p[1] # ws)
       IN IF l = <<>>
          THEN [rooms |-> Pop(M.rooms, room),
                slow_mode |-> Pop(M.slow_mode, room),
                last_message_times |-> Pop(M.last_message_times, room),
                active_polls |-> Pop(M.active_polls, room)]
          ELSE [M EXCEPT !.rooms = Put(M.rooms, room, l)]
  ELSE M

get_room_count(M, room) == Len(Get(M.rooms, room, <<>>))

RECURSIVE ViewerScan(_, _, _, _, _)
ViewerScan(l, i, room, seen, viewers) ==
  IF i > Len(l) THEN viewers
  ELSE LET display == IF l[i][2] = None THEN "Anonymous" ELSE l[i][2]
       IN IF display # room /\ display \notin seen
          THEN ViewerScan(l, i + 1, room, seen \cup {display}, Append(viewers, display))
          ELSE ViewerScan(l, i + 1, room, seen, viewers)

\* get_viewer_list that lists the streamer like any other name.
get_viewer_list_with_streamer(M, room) ==
  IF room \notin DOMAIN M.rooms THEN <<>>
  ELSE ViewerScan(M.rooms[room], 1, "", {}, <<>>)

get_viewer_list(M, room) ==
  IF room \notin DOMAIN M.rooms THEN <<>>
  ELSE ViewerScan(M.rooms[room], 1, room, {}, <<>>)

is_slow_mode(M, room) == Get(M.slow_mode, room, FALSE)

\* set_slow_mode that keeps the cooldown table when the flag is turned off.
set_slow_mode_keeps_times(M, room, enabled) ==
  [M EXCEPT !.slow_mode = Put(M.slow_mode, room, enabled)]

set_slow_mode(M, room, enabled) ==
  LET M1 == [M EXCEPT !.slow_mode = Put(M.slow_mode, room, enabled)]
  IN IF ~enabled
     THEN [M1 EXCEPT !.last_message_times = Pop(M.last_message_times, room)]
     ELSE M1

\* Returns the manager after the call and the boolean result; t is time.time().
\* check_slow_mode_cooldown that rejects a call exactly the cooldown after
\* the last admission.
check_slow_mode_cooldown_strict(M, room, uname, t) ==
  IF ~is_slow_mode(M, room) THEN [M |-> M, allowed |-> TRUE]
  ELSE LET T == IF room \notin DOMAIN M.last_message_times
                THEN Put(M.last_message_times, room, EmptyDict)
                ELSE M.last_message_times
           M1 == [M EXCEPT !.last_message_times = T]
           last == Get(T[room], uname, 0)
       IN IF t - last <= SLOW_MODE_COOLDOWN
          THEN [M |-> M1, allowed |-> FALSE]
          ELSE [M |-> [M EXCEPT !.last_message_times =
                          Put(T, room, Put(T[room], uname, t))],
                allowed |-> TRUE]

\* check_slow_mode_cooldown that stores no timestamp on admission.
check_slow_mode_cooldown_no_record(M, room, uname, t) ==
  IF ~is_slow_mode(M, room) THEN [M |-> M, allowed |-> TRUE]
  ELSE LET T == IF room \notin DOMAIN M.last_message_times
                THEN Put(M.last_message_times, room, EmptyDict)
                ELSE M.last_message_times
           M1 == [M EXCEPT !.last_message_times = T]
           last == Get(T[room], uname, 0)
       IN IF t - last < SLOW_MODE_COOLDOWN
          THEN [M |-> M1, allowed |-> FALSE]
          ELSE [M |-> M1, allowed |-> TRUE]

\* check_slow_mode_cooldown that measures from the user's last admission in
\* whatever room.
check_slow_mode_cooldown_any_room(M, room, uname, t) ==
  IF ~is_slow_mode(M, room) THEN [M |-> M, allowed |-> TRUE]
  ELSE LET T == IF room \notin DOMAIN M.last_message_times
                THEN Put(M.last_message_times, room, EmptyDict)
                ELSE M.last_message_times
           M1 == [M EXCEPT !.last_message_times = T]
           times == {Get(T[r], uname, 0) : r \in DOMAIN T}
           last == CHOOSE x \in times : \A y \in times : y <= x
       IN IF t - last < SLOW_MODE_COOLDOWN
          THEN [M |-> M1, allowed |-> FALSE]
          ELSE [M |-> [M EXCEPT !.last_message_times =
                          Put(T, room, Put(T[room], uname, t))],
                allowed |-> TRUE]

check_slow_mode_cooldown(M, room, uname, t) ==
  IF ~is_slow_mode(M, room) THEN [M |-> M, allowed |-> TRUE]
  ELSE LET T == IF room \notin DOMAIN M.last_message_times
                THEN Put(M.last_message_times, room, EmptyDict)
                ELSE M.last_message_times
           M1 == [M EXCEPT !.last_message_times = T]
           last == Get(T[room], uname, 0)
       IN IF t - last < SLOW_MODE_COOLDOWN
          THEN [M |-> M1, allowed |-> FALSE]
          ELSE [M |-> [M EXCEPT !.last_message_times =
                          Put(T, room, Put(T[room], uname, t))],
                allowed |-> TRUE]

FormatOption(opt) ==
  IF opt.t = "str" THEN [text |-> opt.text, votes |-> 0]
  ELSE IF "votes" \in DOMAIN opt THEN [text |-> opt.text, votes |-> opt.votes]
  ELSE [text |-> opt.text]

\* option.get("votes", 0)
VotesOf(option) == IF "votes" \in DOMAIN option THEN option.votes ELSE 0

\* start_poll that carries the voted-set of the poll it replaces over.
start_poll_keeps_voters(M, room, question, options, duration) ==
  [M EXCEPT !.active_polls = Put(M.active_polls, room,
      [question |-> question,
       options |-> [i \in DOMAIN options |-> FormatOption(options[i])],
       duration |-> duration,
       voters |-> IF room \in DOMAIN M.active_polls
                  THEN M.active_polls[room].voters ELSE {}])]

start_poll(M, room, question, options, duration) ==
  [M EXCEPT !.active_polls = Put(M.active_polls, room,
      [question |-> question,
       options |-> [i \in DOMAIN options |-> FormatOption(options[i])],
       duration |-> duration,
       voters |-> {}])]

\* vote_poll without the test of the voted-set.
vote_poll_no_voter_check(M, room, uname, option_index) ==
  IF room \notin DOMAIN M.active_polls THEN [M |-> M, res |-> "false"]
  ELSE LET poll == M.active_polls[room]
       IN IF option_index.t # "int" THEN [M |-> M, res |-> "raise"]
          ELSE IF option_index.v < 0 \/ option_index.v >= Len(poll.options)
               THEN [M |-> M, res |-> "false"]
          ELSE [M |-> [M EXCEPT !.active_polls = Put(M.active_polls, room,
                         [poll EXCEPT !.options[option_index.v + 1] =
                                        [text |-> @.text, votes |-> VotesOf(@) + 1],
                                      !.voters = @ \cup {uname}])],
                res |-> "true"]

\* vote_poll without the test for a negative index, which Python counts from
\* the end of the list.
vote_poll_negative_index(M, room, uname, option_index) ==
  IF room \notin DOMAIN M.active_polls THEN [M |-> M, res |-> "false"]
  ELSE LET poll == M.active_polls[room]
           n == Len(poll.options)
       IN IF uname \in poll.voters THEN [M |-> M, res |-> "false"]
          ELSE IF option_index.t # "int" THEN [M |-> M, res |-> "raise"]
          ELSE IF option_index.v >= n THEN [M |-> M, res |-> "false"]
          ELSE IF option_index.v < -n THEN [M |-> M, res |-> "raise"]
          ELSE LET k == IF option_index.v < 0 THEN n + option_index.v + 1
                        ELSE option_index.v + 1
               IN [M |-> [M EXCEPT !.active_polls = Put(M.active_polls, room,
                            [poll EXCEPT !.options[k] =
                                           [text |-> @.text, votes |-> VotesOf(@) + 1],
                                         !.voters = @ \cup {uname}])],
                   res |-> "true"]

\* res is "true", "false", or "raise" (a TypeError out of the comparison or
\* the list index when option_index is no integer).
vote_poll(M, room, uname, option_index) ==
  IF room \notin DOMAIN M.active_polls THEN [M |-> M, res |-> "false"]
  ELSE LET poll == M.active_polls[room]
       IN IF uname \in poll.voters THEN [M |-> M, res |-> "false"]
          ELSE IF option_index.t # "int" THEN [M |-> M, res |-> "raise"]
          ELSE IF option_index.v < 0 \/ option_index.v >= Len(poll.options)
               THEN [M |-> M, res |-> "false"]
          ELSE [M |-> [M EXCEPT !.active_polls = Put(M.active_polls, room,
                         [poll EXCEPT !.options[option_index.v + 1] =
                                        [text |-> @.text, votes |-> VotesOf(@) + 1],
                                      !.voters = @ \cup {uname}])],
                res |-> "true"]

\* The view of a poll that carries the voted-set as well.
PollViewWithVoters(poll) ==
  [question |-> poll.question, options |-> poll.options, duration |-> poll.duration,
   voters |-> poll.voters]

PollView(poll) ==
  [question |-> poll.question, options |-> poll.options, duration |-> poll.duration]

EmptyResult == [empty |-> TRUE]

\* end_poll that returns the results and leaves the poll stored.
end_poll_keeps_poll(M, room) ==
  IF room \notin DOMAIN M.active_polls THEN [M |-> M, results |-> EmptyResult]
  ELSE [M |-> M, results |-> PollView(M.active_polls[room])]

end_poll(M, room) ==
  IF room \notin DOMAIN M.active_polls THEN [M |-> M, results |-> EmptyResult]
  ELSE [M |-> [M EXCEPT !.active_polls = Pop(M.active_polls, room)],
        results |-> PollView(M.active_polls[room])]

get_poll(M, room) ==
  IF room \notin DOMAIN M.active_polls THEN EmptyResult
  ELSE PollView(M.active_polls[room])

\* ------------------------------------------------------- inbound frames
Strip(s) == IF s = " " THEN "" ELSE s       \* str.strip() on the strings used

PD(q, opts, dur) == [t |-> "obj", question |-> q, options |-> opts, duration |-> dur]
JList(items) == [t |-> "list", items |-> items]
AB == JList(<<JLabel("A"), JLabel("B")>>)

PollData ==
  { PD(JStr("Q1"), AB, 30),                     \* well formed
    PD(JStr("Q2"), AB, DefaultDuration),        \* well formed, no duration given
    PD(JStr(" "), AB, DefaultDuration),         \* blank question
    PD(JStr("Q1"), JList(<<JLabel("A")>>), DefaultDuration),  \* one option
    PD(JBad, AB, DefaultDuration),              \* question is no string
    PD(JStr("Q1"), JBad, DefaultDuration),      \* options has no len()
    JBad }                                      \* data is no object

Frames ==
  {[type |-> "not_json"], [type |-> "non_object"], [type |-> "POLL_END"]}
  \cup {[type |-> "POLL_VOTE", optionIndex |-> x] :
          x \in {JInt(-1), JInt(0), JInt(1), JInt(2), JNull, JBad}}
  \cup {[type |-> "POLL_START", data |-> d] : d \in PollData}
  \cup {[type |-> "command", action |-> a, enabled |-> e] :
          a \in {"slow_mode", "brb"}, e \in BOOLEAN}
  \cup {[type |-> "command", action |-> "delete_message", msg_id |-> m] :
          m \in {"msg-1", None}}
  \cup {[type |-> "command", action |-> "other"]}
  \cup {[type |-> "chat", text |-> x] : x \in {JStr("hi"), JStr(" "), JBad}}

CreatorOnly(f) ==
  \/ f.type \in {"POLL_START", "POLL_END"}
  \/ f.type = "command" /\ f.action \in {"slow_mode", "delete_message", "brb"}

\* --------------------------------------------------------------- events
Ev(type) == [type |-> type]
ErrorEv(text) == [type |-> "error", text |-> text]
NoEvt == [type |-> "none"]
NoBc == [on |-> FALSE]
NoFrame == [conn |-> 0]
NoCall == [op |-> "none"]
NoStart == [running |-> FALSE]
NoSent == [issued |-> <<>>, to |-> <<>>]
NoSnap == [got |-> FALSE]

ViewerListEv(M, room) ==
  LET viewers == get_viewer_list(M, room)
  IN [type |-> "viewer_list", viewers |-> viewers, count |-> Len(viewers)]

\* ------------------------------------------------ ConnectionManager.broadcast
\* A handler issues the broadcasts evts one after the other and then goes to
\* ret. The result is where it suspends first: at the first send of the first
\* broadcast that finds its room, or at ret when none does.
\* broadcast calls that are made last event first.
broadcast_last_first(M, room, evts, ret) ==
  IF evts # <<>> /\ room \in DOMAIN M.rooms /\ M.rooms[room] # <<>>
  THEN [pc |-> "bsend",
        bc |-> [on |-> TRUE, room |-> room, list |-> M.rooms[room], idx |-> 1,
                dead |-> <<>>, alias |-> TRUE, evt |-> evts[Len(evts)],
                then |-> SubSeq(evts, 1, Len(evts) - 1), ret |-> ret,
                members0 |-> ConnsOf(M.rooms[room])]]
  ELSE [pc |-> ret, bc |-> NoBc]

RECURSIVE broadcast(_, _, _, _)
broadcast(M, room, evts, ret) ==
  IF evts = <<>> THEN [pc |-> ret, bc |-> NoBc]
  ELSE IF room \in DOMAIN M.rooms /\ M.rooms[room] # <<>>
       THEN [pc |-> "bsend",
             bc |-> [on |-> TRUE, room |-> room, list |-> M.rooms[room], idx |-> 1,
                     dead |-> <<>>, alias |-> TRUE, evt |-> Head(evts),
                     then |-> Tail(evts), ret |-> ret,
                     members0 |-> ConnsOf(M.rooms[room])]]
       ELSE broadcast(M, room, Tail(evts), ret)

\* for dead in dead_connections: self.disconnect(room, dead)
RECURSIVE DisconnectAll(_, _, _)
DisconnectAll(M, room, dead) ==
  IF dead = <<>> THEN M
  ELSE DisconnectAll(disconnect(M, room, Head(dead)), room, Tail(dead))

\* ------------------------------------------- chat_websocket: frame dispatch
\* is_creator that holds for every logged-in user.
IsCreatorAnyLogin(uname, room) == uname # None

IsCreator(uname, room) == uname = room

NoRow == [added |-> FALSE]          \* no ChatMessage row handed to the store
Cont(M) == [M |-> M, k |-> "continue", evts |-> <<>>, db |-> NoRow]
Personal(M, e) == [M |-> M, k |-> "personal", evts |-> <<e>>, db |-> NoRow]
Bcast(M, es) == [M |-> M, k |-> "bcast", evts |-> es, db |-> NoRow]
Raise(M) == [M |-> M, k |-> "raise", evts |-> <<>>, db |-> NoRow]
\* Lines 269-295: the row is added to the store, then the event is broadcast.
Persist(M, row, e) == [M |-> M, k |-> "bcast", evts |-> <<e>>, db |-> row]

\* ---------------------------------------------------- the ChatMessage table
\* The id the table gives the next row: an integer primary key of SQLite, one
\* more than the largest id in use.
NextId(st) ==
  IF st = {} THEN 1
  ELSE 1 + (CHOOSE n \in {r.id : r \in st} : \A r \in st : r.id <= n)

RowOf(row, n) ==
  [id |-> n, room |-> row.room, sender |-> row.sender, text |-> row.text,
   is_mod |-> row.is_mod]

\* msg_id of the chat event: f"msg-{chat_msg.id}", or f"msg-{timestamp}" when
\* the write raised.
ChatId(ok, st) ==
  IF ok THEN [kind |-> "stored", n |-> NextId(st)] ELSE [kind |-> "timestamp"]

\* The persist step of a dispatch in which a failing write ends the handler.
AfterStoreFailureRaises(d, ok, st) ==
  IF ~d.db.added THEN [d |-> d, store |-> st]
  ELSE IF ~ok THEN [d |-> [d EXCEPT !.k = "raise", !.evts = <<>>], store |-> st]
  ELSE [d |-> [d EXCEPT !.evts = <<[type |-> "chat", id |-> ChatId(ok, st),
                                    user |-> d.evts[1].user, text |-> d.evts[1].text,
                                    isMod |-> d.evts[1].isMod]>>],
        store |-> st \cup {RowOf(d.db, NextId(st))}]

\* Lines 269-295 for the dispatch d that hands a row to the table: ok says
\* whether add, commit and refresh went through; if not the write is rolled
\* back. The chat event gets its id either way.
AfterStore(d, ok, st) ==
  IF ~d.db.added THEN [d |-> d, store |-> st]
  ELSE [d |-> [d EXCEPT !.evts = <<[type |-> "chat", id |-> ChatId(ok, st),
                                    user |-> d.evts[1].user, text |-> d.evts[1].text,
                                    isMod |-> d.evts[1].isMod]>>],
        store |-> IF ok THEN st \cup {RowOf(d.db, NextId(st))} ELSE st]

\* int(msg_id.replace("msg-", "")) on the ids used; 0: int() raises ValueError.
ParseId(msg_id) ==
  CASE msg_id = "msg-1" -> 1
    [] msg_id = "msg-2" -> 2
    [] OTHER -> 0

\* delete_message that filters by the id alone.
DeleteRowsAnyRoom(st, msg_id, room, ok) ==
  IF ParseId(msg_id) = 0 \/ ~ok THEN st
  ELSE {r \in st : r.id # ParseId(msg_id)}

\* Lines 209-224: the delete of the row with that id in that room; a msg_id
\* that is no number, or a failing delete (ok false), changes nothing.
DeleteRows(st, msg_id, room, ok) ==
  IF ParseId(msg_id) = 0 \/ ~ok THEN st
  ELSE {r \in st : ~(r.id = ParseId(msg_id) /\ r.room = room)}

SystemEv(text) == [type |-> "system", user |-> "System", text |-> text]

OnPollVote(M, room, uname, f) ==
  IF uname = None THEN Personal(M, ErrorEv("Login required to vote"))
  ELSE IF f.optionIndex.t = "null" THEN Cont(M)
  ELSE LET v == vote_poll(M, room, uname, f.optionIndex)
       IN CASE v.res = "true" ->
                 Bcast(v.M, <<[type |-> "POLL_VOTE", optionIndex |-> f.optionIndex.v]>>)
            [] v.res = "false" ->
                 Personal(v.M, ErrorEv("Already voted or invalid option"))
            [] OTHER -> Raise(v.M)

\* OnPollStart without the test of the question and of the number of options.
OnPollStartNoValidation(M, room, creator, f) ==
  IF ~creator THEN Personal(M, ErrorEv("Only the creator can start polls"))
  ELSE IF f.data.t # "obj" THEN Raise(M)
  ELSE IF f.data.question.t # "str" THEN Raise(M)
  ELSE IF f.data.options.t # "list" THEN Raise(M)
  ELSE LET M1 == start_poll(M, room, Strip(f.data.question.v), f.data.options.items,
                            f.data.duration)
       IN Bcast(M1, <<[type |-> "POLL_START", data |-> get_poll(M1, room)]>>)

OnPollStart(M, room, creator, f) ==
  IF ~creator THEN Personal(M, ErrorEv("Only the creator can start polls"))
  ELSE IF f.data.t # "obj" THEN Raise(M)                 \* poll_data.get
  ELSE IF f.data.question.t # "str" THEN Raise(M)        \* .strip()
  ELSE LET question == Strip(f.data.question.v)
       IN IF question = "" THEN Personal(M, ErrorEv("Invalid poll data"))
          ELSE IF f.data.options.t # "list" THEN Raise(M)  \* len(options)
          ELSE IF Len(f.data.options.items) < 2
               THEN Personal(M, ErrorEv("Invalid poll data"))
          ELSE LET M1 == start_poll(M, room, question, f.data.options.items,
                                    f.data.duration)
               IN Bcast(M1, <<[type |-> "POLL_START", data |-> get_poll(M1, room)]>>)

OnPollEnd(M, room, creator) ==
  IF ~creator THEN Cont(M)
  ELSE LET e == end_poll(M, room)
       IN Bcast(e.M, <<[type |-> "POLL_END", data |-> e.results]>>)

OnCommand(M, room, creator, f) ==
  IF ~creator THEN Personal(M, ErrorEv("Only the creator can use commands"))
  ELSE CASE f.action = "slow_mode" ->
              Bcast(set_slow_mode(M, room, f.enabled),
                    <<[type |-> "slow_mode", enabled |-> f.enabled],
                      SystemEv(IF f.enabled THEN "Slow mode enabled (5s cooldown)"
                               ELSE "Slow mode disabled")>>)
         [] f.action = "delete_message" ->
              IF f.msg_id # None
              THEN Bcast(M, <<[type |-> "message_deleted", msg_id |-> f.msg_id]>>)
              ELSE Cont(M)
         [] f.action = "brb" ->
              Bcast(M, <<[type |-> "brb", enabled |-> f.enabled],
                         SystemEv(IF f.enabled THEN "Stream paused (BRB)"
                                  ELSE "Stream resumed")>>)
         [] OTHER -> Cont(M)

\* OnChat that puts the creator under the cooldown as well.
OnChatNoExemption(M, room, uname, creator, f, t) ==
  IF uname = None
  THEN Personal(M, ErrorEv("You must be logged in to send messages"))
  ELSE IF f.text.t # "str" THEN Raise(M)
  ELSE IF Strip(f.text.v) = "" THEN Cont(M)
  ELSE LET chat == [type |-> "chat", user |-> uname, text |-> Strip(f.text.v),
                    isMod |-> creator]
           row == [added |-> TRUE, room |-> room, sender |-> uname,
                   text |-> Strip(f.text.v), is_mod |-> creator]
           cd == check_slow_mode_cooldown(M, room, uname, t)
       IN IF ~cd.allowed
          THEN Personal(cd.M, ErrorEv("Slow mode is on. Wait 5s between messages."))
          ELSE Persist(cd.M, row, chat)

\* OnChat without the test of the identity.
OnChatNoLogin(M, room, uname, creator, f, t) ==
  IF f.text.t # "str" THEN Raise(M)
  ELSE IF Strip(f.text.v) = "" THEN Cont(M)
  ELSE LET chat == [type |-> "chat", user |-> uname, text |-> Strip(f.text.v),
                    isMod |-> creator]
           row == [added |-> TRUE, room |-> room, sender |-> uname,
                   text |-> Strip(f.text.v), is_mod |-> creator]
       IN IF creator THEN Persist(M, row, chat)
          ELSE LET cd == check_slow_mode_cooldown(M, room, uname, t)
               IN IF ~cd.allowed
                  THEN Personal(cd.M, ErrorEv("Slow mode is on. Wait 5s between messages."))
                  ELSE Persist(cd.M, row, chat)

OnChat(M, room, uname, creator, f, t) ==
  IF uname = None
  THEN Personal(M, ErrorEv("You must be logged in to send messages"))
  ELSE IF f.text.t # "str" THEN Raise(M)                 \* .strip()
  ELSE IF Strip(f.text.v) = "" THEN Cont(M)
  ELSE LET chat == [type |-> "chat", user |-> uname, text |-> Strip(f.text.v),
                    isMod |-> creator]
           row == [added |-> TRUE, room |-> room, sender |-> uname,
                   text |-> Strip(f.text.v), is_mod |-> creator]
       IN IF creator THEN Persist(M, row, chat)
          ELSE LET cd == check_slow_mode_cooldown(M, room, uname, t)
               IN IF ~cd.allowed
                  THEN Personal(cd.M, ErrorEv("Slow mode is on. Wait 5s between messages."))
                  ELSE Persist(cd.M, row, chat)

\* One pass of the receive loop body on frame f, up to its first await.
Dispatch(M, room, uname, creator, f, t) ==
  CASE f.type = "not_json" -> Personal(M, ErrorEv("Invalid message format"))
    [] f.type = "non_object" -> Raise(M)                 \* data.get
    [] f.type = "POLL_VOTE" -> OnPollVote(M, room, uname, f)
    [] f.type = "POLL_START" -> OnPollStart(M, room, creator, f)
    [] f.type = "POLL_END" -> OnPollEnd(M, room, creator)
    [] f.type = "command" -> OnCommand(M, room, creator, f)
    [] OTHER -> OnChat(M, room, uname, creator, f, t)

\* ------------------------------------------------------------ the machine
Init ==
  /\ rooms = EmptyDict /\ slow_mode = EmptyDict
  /\ last_message_times = EmptyDict /\ active_polls = EmptyDict
  /\ pc = [c \in Conns |-> "idle"]
  /\ streamer_username = [c \in Conns |-> None]
  /\ username = [c \in Conns |-> None]
  /\ is_creator = [c \in Conns |-> FALSE]
  /\ sending = [c \in Conns |-> NoEvt]
  /\ bc = [c \in Conns |-> NoBc]
  /\ closed = [c \in Sockets |-> FALSE]
  /\ store = {}
  /\ frames = 0
  /\ now = StartClock
  /\ lastRecv = NoFrame
  /\ cleanups = [c \in Conns |-> 0]
  /\ exitBy = [c \in Conns |-> [how |-> "none", member |-> FALSE]]
  /\ accepted = [r \in RoomNames |-> <<>>]
  /\ admitted = [r \in RoomNames |-> EmptyDict]
  /\ expired = [r \in RoomNames |-> EmptyDict]
  /\ lastCall = NoCall
  /\ started = [r \in RoomNames |-> NoStart]
  /\ sent = [c \in Conns |-> NoSent]
  /\ snap = [c \in Conns |-> NoSnap]
  /\ tally = [c \in Conns |-> EmptyDict]

\* What a step of handler c leaves behind: the manager M1, c suspended as r
\* says, the personal event snd in flight. rebind: the step ran disconnect on
\* an existing room, which rebinds rooms[room] to a new list, so a broadcast
\* of another task that iterates the old list no longer sees later appends.
Commit(c, M1, r, rebind, snd) ==
  /\ rooms' = M1.rooms
  /\ slow_mode' = M1.slow_mode
  /\ last_message_times' = M1.last_message_times
  /\ active_polls' = M1.active_polls
  /\ pc' = [pc EXCEPT ![c] = r.pc]
  /\ bc' = [h \in Conns |->
              IF h = c THEN r.bc
              ELSE IF rebind /\ bc[h].on /\ bc[h].room = streamer_username[c]
                   THEN [bc[h] EXCEPT !.alias = FALSE]
                   ELSE bc[h]]
  /\ sending' = [sending EXCEPT ![c] = snd]
  \* the server closes the socket when the handler returns
  /\ closed' = IF r.pc = "done" THEN [closed EXCEPT ![c] = TRUE] ELSE closed

\* The step makes handler h call send_text for an element of its broadcast:
\* the first of a broadcast, or the next after a send returned.
NewSend(h) ==
  /\ bc'[h].on
  /\ \/ ~bc[h].on
     \/ bc'[h].idx # bc[h].idx
     \/ bc'[h].evt # bc[h].evt
     \/ Len(bc'[h].then) # Len(bc[h].then)

Target(h) == bc'[h].list[bc'[h].idx][1]

PosIn(evts, e) == CHOOSE p \in DOMAIN evts : evts[p] = e

\* What the step sends to whom. by: the handler that takes a frame in this
\* step (0: none), evts: the events its code broadcasts for it, in the order
\* of the calls.
Delivery(by, evts) ==
  /\ sent' = [h \in Conns |->
       IF ~bc'[h].on THEN NoSent
       ELSE LET base == IF h = by
                        THEN [issued |-> evts, to |-> [p \in DOMAIN evts |-> {}]]
                        ELSE sent[h]
            IN IF NewSend(h) /\ \E p \in DOMAIN base.issued : base.issued[p] = bc'[h].evt
               THEN [base EXCEPT !.to[PosIn(base.issued, bc'[h].evt)] = @ \cup {Target(h)}]
               ELSE base]
  /\ LET replaced(x) ==
           \/ streamer_username[x] \notin DOMAIN active_polls'
           \/ /\ by # 0 /\ evts # <<>> /\ evts[1].type = "POLL_START"
              /\ streamer_username[by] = streamer_username[x]
         replayed(x) == pc[x] = "sp_slow" /\ pc'[x] = "sp_poll"
         votes(x) == {h \in Conns : /\ NewSend(h) /\ Target(h) = x
                                    /\ bc'[h].evt.type = "POLL_VOTE"}
     IN /\ snap' = [x \in Conns |->
                      IF replaced(x) THEN NoSnap
                      ELSE IF replayed(x)
                           THEN [got |-> TRUE, options |-> sending'[x].poll.options]
                      ELSE snap[x]]
        /\ tally' = [x \in Conns |->
                      IF replaced(x) \/ replayed(x) \/ ~snap[x].got THEN EmptyDict
                      ELSE IF votes(x) # {}
                           THEN LET k == bc'[CHOOSE h \in votes(x) : TRUE].evt.optionIndex
                                IN Put(tally[x], k, Get(tally[x], k, 0) + 1)
                      ELSE tally[x]]

\* The history of accepted votes is that of the running poll: it starts anew
\* when the room's poll is gone.
KeepAccepted(acc) ==
  [r \in RoomNames |-> IF r \in DOMAIN active_polls' THEN acc[r] ELSE <<>>]

\* So is the history of the start_poll call.
KeepStarted(st) ==
  [r \in RoomNames |-> IF r \in DOMAIN active_polls' THEN st[r] ELSE NoStart]

StartArgs(question, options, duration) ==
  [running |-> TRUE, question |-> question, options |-> options, duration |-> duration]

\* The history of admissions is that of the present slow-mode period: it
\* starts anew when the room's flag is off or gone.
KeepAdmitted(adm) ==
  [r \in RoomNames |->
     IF r \in DOMAIN slow_mode' /\ slow_mode'[r] THEN adm[r] ELSE EmptyDict]

\* When the period ends its admissions pass to the expired ones.
KeepExpired(adm) ==
  [r \in RoomNames |->
     IF r \in DOMAIN slow_mode' /\ slow_mode'[r] THEN expired[r]
     ELSE [u \in DOMAIN expired[r] \cup DOMAIN adm[r] |->
             IF u \in DOMAIN adm[r] THEN adm[r][u] ELSE expired[r][u]]]

QuietHandler ==
  /\ lastRecv' = NoFrame
  /\ accepted' = KeepAccepted(accepted)
  /\ admitted' = KeepAdmitted(admitted)
  /\ expired' = KeepExpired(admitted)
  /\ started' = KeepStarted(started)
  /\ Delivery(0, <<>>)
  /\ UNCHANGED <<frames, now, cleanups, exitBy>>

Quiet == QuietHandler /\ lastCall' = NoCall

\* The history of the delete of lines 209-224: ok says whether it went through.
DeleteCall(c, msg_id, ok) ==
  [op |-> "delete", conn |-> c, room |-> streamer_username[c], msg_id |-> msg_id,
   ok |-> ok]

\* Lines 70-91: the handler resolves the identity, computes is_creator and
\* calls connect. Nothing is shared before websocket.accept() returns, so the
\* step ends at the first personal send: connect has appended to the room's
\* list (in place: a broadcast iterating that very list sees the new element).
Start(c, room, ident) ==
  /\ pc[c] = "idle"
  /\ IF c = 1 THEN TRUE ELSE pc[c - 1] # "idle"   \* connections open in order
  /\ streamer_username' = [streamer_username EXCEPT ![c] = room]
  /\ username' = [username EXCEPT ![c] = ident]
  /\ is_creator' = [is_creator EXCEPT ![c] = IsCreator(ident, room)]
  /\ LET M1 == connect(Mgr, room, c, ident)
     IN /\ rooms' = M1.rooms
        /\ bc' = [h \in Conns |->
                    IF bc[h].on /\ bc[h].room = room /\ bc[h].alias
                    THEN [bc[h] EXCEPT !.list = Append(@, <<c, ident>>)]
                    ELSE bc[h]]
  /\ pc' = [pc EXCEPT ![c] = "sp_system"]
  /\ sending' = [sending EXCEPT ![c] = SystemEv("Connected")]
  /\ UNCHANGED <<slow_mode, last_message_times, active_polls, closed, store>>
  /\ Quiet

\* Lines 93-97.
JoinSlowMode(c) ==
  /\ pc[c] = "sp_system"
  /\ pc' = [pc EXCEPT ![c] = "sp_slow"]
  /\ sending' = [sending EXCEPT ![c] =
        [type |-> "slow_mode", enabled |-> is_slow_mode(Mgr, streamer_username[c])]]
  /\ UNCHANGED <<mgrvars, streamer_username, username, is_creator, bc, closed, store>>
  /\ Quiet

JoinViewerList(c) ==
  LET room == streamer_username[c]
  IN Commit(c, Mgr, broadcast(Mgr, room, <<ViewerListEv(Mgr, room)>>, "recv"),
            FALSE, NoEvt)

\* Lines 99-108.
JoinPoll(c) ==
  /\ pc[c] = "sp_slow"
  /\ LET active_poll == get_poll(Mgr, streamer_username[c])
     IN IF active_poll # EmptyResult
        THEN Commit(c, Mgr, [pc |-> "sp_poll", bc |-> NoBc], FALSE,
                    [type |-> "poll_update", poll |-> active_poll])
        ELSE JoinViewerList(c)
  /\ UNCHANGED <<streamer_username, username, is_creator, store>>
  /\ Quiet

JoinBroadcast(c) ==
  /\ pc[c] = "sp_poll"
  /\ JoinViewerList(c)
  /\ UNCHANGED <<streamer_username, username, is_creator, store>>
  /\ Quiet

\* What the handler of c does when its broadcast b has returned, before its
\* next await: after the message_deleted event, the delete of lines 209-224.
AfterBroadcast(c, b) ==
  IF b.evt.type = "message_deleted"
  THEN \E ok \in BOOLEAN :
         /\ store' = DeleteRows(store, b.evt.msg_id, streamer_username[c], ok)
         /\ lastCall' = DeleteCall(c, b.evt.msg_id, ok)
  ELSE /\ UNCHANGED store
       /\ lastCall' = NoCall

\* A broadcast whose loop is left at the first send that raises.
SendDoneStopsOnFailure(c, ok) ==
  /\ pc[c] = "bsend"
  /\ LET b == bc[c]
         target == b.list[b.idx][1]
         dead == IF ok THEN b.dead ELSE Append(b.dead, target)
     IN /\ ok \/ closed[target]
        /\ IF b.idx < Len(b.list) /\ ok
           THEN /\ bc' = [bc EXCEPT ![c].idx = @ + 1, ![c].dead = dead]
                /\ UNCHANGED <<mgrvars, pc, sending, closed, store>>
                /\ lastCall' = NoCall
           ELSE LET M1 == DisconnectAll(Mgr, b.room, dead)
                IN /\ Commit(c, M1, broadcast(M1, b.room, b.then, b.ret),
                             dead # <<>> /\ b.room \in DOMAIN rooms, NoEvt)
                   /\ AfterBroadcast(c, b)
  /\ UNCHANGED <<streamer_username, username, is_creator>>
  /\ QuietHandler

\* One send_text of a broadcast returned (ok) or raised (~ok). After the last
\* element the dead connections are disconnected and the caller goes on.
SendDone(c, ok) ==
  /\ pc[c] = "bsend"
  /\ LET b == bc[c]
         target == b.list[b.idx][1]
         dead == IF ok THEN b.dead ELSE Append(b.dead, target)
     IN /\ ok \/ closed[target]
        /\ IF b.idx < Len(b.list)
           THEN /\ bc' = [bc EXCEPT ![c].idx = @ + 1, ![c].dead = dead]
                /\ UNCHANGED <<mgrvars, pc, sending, closed, store>>
                /\ lastCall' = NoCall
           ELSE LET M1 == DisconnectAll(Mgr, b.room, dead)
                IN /\ Commit(c, M1, broadcast(M1, b.room, b.then, b.ret),
                             dead # <<>> /\ b.room \in DOMAIN rooms, NoEvt)
                   /\ AfterBroadcast(c, b)
  /\ UNCHANGED <<streamer_username, username, is_creator>>
  /\ QuietHandler

\* A cleanup that drops the room's entries of the handler's username instead
\* of the handler's own connection.
ExitLoopByName(c, M, how) ==
  LET room == streamer_username[c]
      l == SelectSeq(Get(M.rooms, room, <<>>), LAMBDA p : p[2] # username[c])
      M1 == IF room \notin DOMAIN M.rooms THEN M
            ELSE IF l = <<>>
                 THEN [rooms |-> Pop(M.rooms, room),
                       slow_mode |-> Pop(M.slow_mode, room),
                       last_message_times |-> Pop(M.last_message_times, room),
                       active_polls |-> Pop(M.active_polls, room)]
                 ELSE [M EXCEPT !.rooms = Put(M.rooms, room, l)]
  IN /\ Commit(c, M1, broadcast(M1, room, <<ViewerListEv(M1, room)>>, "done"),
               room \in DOMAIN M.rooms, NoEvt)
     /\ cleanups' = [cleanups EXCEPT ![c] = @ + 1]
     /\ exitBy' = [exitBy EXCEPT ![c] =
                     [how |-> how, member |-> c \in ConnsOf(Get(M.rooms, room, <<>>))]]

\* Lines 297-302: both except clauses do the same.
ExitLoop(c, M, how) ==
  LET room == streamer_username[c]
      M1 == disconnect(M, room, c)
  IN /\ Commit(c, M1, broadcast(M1, room, <<ViewerListEv(M1, room)>>, "done"),
               room \in DOMAIN M.rooms, NoEvt)
     /\ cleanups' = [cleanups EXCEPT ![c] = @ + 1]
     /\ exitBy' = [exitBy EXCEPT ![c] =
                     [how |-> how, member |-> c \in ConnsOf(Get(M.rooms, room, <<>>))]]

\* time.time() is read by check_slow_mode_cooldown when slow mode is on; the
\* clock is observed nowhere else, so it advances there only.
ClockChoices(c, f) ==
  IF /\ f.type = "chat" /\ username[c] # None /\ ~is_creator[c]
     /\ is_slow_mode(Mgr, streamer_username[c])
  THEN {t \in {now, now + SLOW_MODE_COOLDOWN - 1, now + SLOW_MODE_COOLDOWN} : t <= MaxClock}
  ELSE {now}

\* receive_text() returned frame f; t is what time.time() returns.
Receive(c, f, t) ==
  /\ pc[c] = "recv"
  /\ frames' = frames + 1
  /\ now' = t
  /\ \E ok \in BOOLEAN :
     LET room == streamer_username[c]
         d0 == Dispatch(Mgr, room, username[c], is_creator[c], f, t)
         a == AfterStore(d0, ok, store)
         d == a.d
         \* the broadcast of message_deleted finds no room and returns at once
         deletes == /\ d.k = "bcast" /\ d.evts[1].type = "message_deleted"
                    /\ room \notin DOMAIN d.M.rooms
     IN /\ ok \/ d0.db.added \/ deletes   \* the table is used by these alone
        /\ store' = IF deletes THEN DeleteRows(store, d.evts[1].msg_id, room, ok)
                    ELSE a.store
        /\ lastCall' = IF deletes THEN DeleteCall(c, d.evts[1].msg_id, ok) ELSE NoCall
        /\ CASE d.k = "continue" ->
                  /\ Commit(c, d.M, [pc |-> "recv", bc |-> NoBc], FALSE, NoEvt)
                  /\ UNCHANGED <<cleanups, exitBy>>
             [] d.k = "personal" ->
                  \* send_personal swallows a failure and the loop continues: the
                  \* handler does nothing between this send and receive_text()
                  /\ Commit(c, d.M, [pc |-> "recv", bc |-> NoBc], FALSE, d.evts[1])
                  /\ UNCHANGED <<cleanups, exitBy>>
             [] d.k = "bcast" ->
                  /\ Commit(c, d.M, broadcast(d.M, room, d.evts, "recv"), FALSE, NoEvt)
                  /\ UNCHANGED <<cleanups, exitBy>>
             [] OTHER -> ExitLoop(c, d.M, "exception")
        /\ accepted' = KeepAccepted(
             IF d.k = "bcast" /\ d.evts[1].type = "POLL_VOTE"
             THEN [accepted EXCEPT ![room] =
                     Append(@, <<username[c], c, d.evts[1].optionIndex>>)]
             ELSE IF d.k = "bcast" /\ d.evts[1].type = "POLL_START"
             THEN [accepted EXCEPT ![room] = <<>>]
             ELSE accepted)
        /\ started' = KeepStarted(
             IF d.k = "bcast" /\ d.evts[1].type = "POLL_START"
             THEN [started EXCEPT ![room] =
                     StartArgs(Strip(f.data.question.v), f.data.options.items,
                               f.data.duration)]
             ELSE started)
        /\ LET adm == IF /\ d.k = "bcast" /\ d.evts[1].type = "chat"
                         /\ ~is_creator[c] /\ is_slow_mode(Mgr, room)
                      THEN [admitted EXCEPT ![room] = Put(@, username[c], t)]
                      ELSE admitted
           IN /\ admitted' = KeepAdmitted(adm)
              /\ expired' = KeepExpired(adm)
        /\ lastRecv' = [conn |-> c, frame |-> f, db |-> d.db, ok |-> ok]
        /\ Delivery(c, IF d.k = "bcast" THEN d.evts ELSE <<>>)
  /\ UNCHANGED <<streamer_username, username, is_creator>>

\* receive_text() raised WebSocketDisconnect.
RecvDisconnect(c) ==
  /\ pc[c] = "recv"
  /\ closed[c]
  /\ ExitLoop(c, Mgr, "close")
  /\ lastRecv' = NoFrame
  /\ lastCall' = NoCall
  /\ accepted' = KeepAccepted(accepted)
  /\ admitted' = KeepAdmitted(admitted)
  /\ expired' = KeepExpired(admitted)
  /\ started' = KeepStarted(started)
  /\ Delivery(0, <<>>)
  /\ UNCHANGED <<frames, now, streamer_username, username, is_creator, store>>

\* The peer goes away (or the network does).
Close(c) ==
  /\ pc[c] \notin {"idle", "done"}
  /\ ~closed[c]
  /\ closed' = [closed EXCEPT ![c] = TRUE]
  /\ UNCHANGED <<mgrvars, pc, streamer_username, username, is_creator, sending, bc,
                 store>>
  /\ Quiet

\* The handler task is cancelled at an await: CancelledError is no Exception,
\* neither except clause catches it.
Cancel(c) ==
  /\ pc[c] \in {"sp_system", "sp_slow", "sp_poll", "bsend", "recv"}
  /\ Commit(c, Mgr, [pc |-> "done", bc |-> NoBc], FALSE, NoEvt)
  /\ exitBy' = [exitBy EXCEPT ![c] =
                  [how |-> "cancel",
                   member |-> c \in ConnsOf(Get(rooms, streamer_username[c], <<>>))]]
  /\ lastRecv' = NoFrame
  /\ lastCall' = NoCall
  /\ accepted' = KeepAccepted(accepted)
  /\ admitted' = KeepAdmitted(admitted)
  /\ expired' = KeepExpired(admitted)
  /\ started' = KeepStarted(started)
  /\ Delivery(0, <<>>)
  /\ UNCHANGED <<frames, now, cleanups, streamer_username, username, is_creator, store>>

\* The steps that take no inbound frame, in a room that has no poll.
JoinLeave ==
  \/ \E c \in Conns, room \in RoomNames, ident \in Identities : Start(c, room, ident)
  \/ \E c \in Conns : JoinSlowMode(c)
  \/ \E c \in Conns : JoinPoll(c)
  \/ \E c \in Conns, ok \in BOOLEAN : SendDone(c, ok)
  \/ \E c \in Conns : RecvDisconnect(c)
  \/ \E c \in Conns : Close(c)

\* The steps that take no inbound frame.
Internal ==
  \/ JoinLeave
  \/ \E c \in Conns : JoinBroadcast(c)

Next ==
  \/ Internal
  \/ \E c \in Conns, f \in Frames :
       /\ frames < MaxFrames
       /\ \E t \in ClockChoices(c, f) : Receive(c, f, t)

Spec == Init /\ [][Next]_vars

\* The same with task cancellation (server teardown).
NextTeardown == Next \/ \E c \in Conns : Cancel(c)

SpecTeardown == Init /\ [][NextTeardown]_vars

\* The poll protocol alone, with room for one more frame.
PollFrames ==
  {f \in Frames : \/ f.type \in {"POLL_VOTE", "POLL_END"}
                  \/ f.type = "POLL_START" /\ f.data.t = "obj"
                     /\ f.data.question.t = "str" /\ f.data.options.t = "list"}

NextPoll ==
  \/ Internal
  \/ \E c \in Conns, f \in PollFrames :
       /\ frames < MaxPollFrames
       /\ Receive(c, f, now)

SpecPoll == Init /\ [][NextPoll]_vars

\* Polls whose options carry counts of their own: the handler passes the
\* options of the frame to start_poll as they are.
SeededPollData ==
  { PD(JStr("Q1"), AB, 30),
    PD(JStr("Q1"), JList(<<JOption("A", 2), JLabel("B")>>), 30),
    PD(JStr("Q1"), JList(<<JOption("A", -1), JOptionBare("B")>>), 30) }

SeededPollFrames ==
  {[type |-> "POLL_END"]}
  \cup {[type |-> "POLL_VOTE", optionIndex |-> x] : x \in {JInt(0), JInt(1), JInt(2)}}
  \cup {[type |-> "POLL_START", data |-> d] : d \in SeededPollData}

NextPollSeeded ==
  \/ Internal
  \/ \E c \in Conns, f \in SeededPollFrames :
       /\ frames < MaxPollFrames
       /\ Receive(c, f, now)

SpecPollSeeded == Init /\ [][NextPollSeeded]_vars

\* ------------------------------------------- the manager's methods, called
\* directly: every sequence of calls, the clock never going back.
Usernames == {"bob", "carol"}

CallSetSlowMode(room, enabled) ==
  /\ LET M1 == set_slow_mode(Mgr, room, enabled)
     IN /\ slow_mode' = M1.slow_mode
        /\ last_message_times' = M1.last_message_times
  /\ lastCall' = [op |-> "set_slow_mode", room |-> room, enabled |-> enabled]
  /\ lastRecv' = NoFrame
  /\ UNCHANGED <<delivered, store>>
  /\ admitted' = KeepAdmitted(admitted)
  /\ expired' = KeepExpired(admitted)
  /\ UNCHANGED <<rooms, active_polls, pc, streamer_username, username, is_creator,
                 sending, bc, closed, frames, now, cleanups, exitBy, accepted,
                 started>>

CallCheckCooldown(room, uname, t) ==
  /\ LET cd == check_slow_mode_cooldown(Mgr, room, uname, t)
         adm == IF cd.allowed /\ is_slow_mode(Mgr, room)
                THEN [admitted EXCEPT ![room] = Put(@, uname, t)]
                ELSE admitted
     IN /\ slow_mode' = cd.M.slow_mode
        /\ last_message_times' = cd.M.last_message_times
        /\ lastCall' = [op |-> "check_slow_mode_cooldown", room |-> room,
                        username |-> uname, t |-> t, allowed |-> cd.allowed]
        /\ admitted' = KeepAdmitted(adm)
        /\ expired' = KeepExpired(adm)
  /\ now' = t
  /\ lastRecv' = NoFrame
  /\ UNCHANGED <<delivered, store>>
  /\ UNCHANGED <<rooms, active_polls, pc, streamer_username, username, is_creator,
                 sending, bc, closed, frames, cleanups, exitBy, accepted, started>>

NextCooldown ==
  \/ \E room \in RoomNames, enabled \in BOOLEAN : CallSetSlowMode(room, enabled)
  \/ \E room \in RoomNames, uname \in Usernames, t \in now..MaxClock :
       CallCheckCooldown(room, uname, t)

SpecCooldown == Init /\ [][NextCooldown]_vars

\* The poll methods, called directly.
OptionLists ==
  { <<JLabel("A"), JLabel("B")>>,
    <<JOption("A", 2), JLabel("B")>>,
    <<JOptionBare("A"), JOption("B", 1), JLabel("C")>> }

Replaced(room) ==
  IF room \in DOMAIN active_polls
  THEN [running |-> TRUE, poll |-> active_polls[room]]
  ELSE [running |-> FALSE]

CallStartPoll(room, question, options, duration) ==
  /\ active_polls' = start_poll(Mgr, room, question, options, duration).active_polls
  /\ lastCall' = [op |-> "start_poll", room |-> room, question |-> question,
                  options |-> options, duration |-> duration,
                  replaced |-> Replaced(room)]
  /\ accepted' = [accepted EXCEPT ![room] = <<>>]
  /\ started' = [started EXCEPT ![room] = StartArgs(question, options, duration)]
  /\ lastRecv' = NoFrame
  /\ UNCHANGED <<delivered, store>>
  /\ UNCHANGED <<rooms, slow_mode, last_message_times, pc, streamer_username,
                 username, is_creator, sending, bc, closed, frames, now, cleanups,
                 exitBy, admitted, expired>>

CallVotePoll(room, uname, option_index) ==
  /\ LET v == vote_poll(Mgr, room, uname, JInt(option_index))
     IN /\ active_polls' = v.M.active_polls
        /\ lastCall' = [op |-> "vote_poll", room |-> room, username |-> uname,
                        option_index |-> option_index, res |-> v.res]
        /\ accepted' = KeepAccepted(
             IF v.res = "true"
             THEN [accepted EXCEPT ![room] = Append(@, <<uname, 0, option_index>>)]
             ELSE accepted)
  /\ started' = KeepStarted(started)
  /\ lastRecv' = NoFrame
  /\ UNCHANGED <<delivered, store>>
  /\ UNCHANGED <<rooms, slow_mode, last_message_times, pc, streamer_username,
                 username, is_creator, sending, bc, closed, frames, now, cleanups,
                 exitBy, admitted, expired>>

CallEndPoll(room) ==
  /\ LET e == end_poll(Mgr, room)
     IN /\ active_polls' = e.M.active_polls
        /\ lastCall' = [op |-> "end_poll", room |-> room, results |-> e.results]
  /\ accepted' = KeepAccepted(accepted)
  /\ started' = KeepStarted(started)
  /\ lastRecv' = NoFrame
  /\ UNCHANGED <<delivered, store>>
  /\ UNCHANGED <<rooms, slow_mode, last_message_times, pc, streamer_username,
                 username, is_creator, sending, bc, closed, frames, now, cleanups,
                 exitBy, admitted, expired>>

CallGetPoll(room) ==
  /\ lastCall' = [op |-> "get_poll", room |-> room, results |-> get_poll(Mgr, room)]
  /\ lastRecv' = NoFrame
  /\ UNCHANGED <<delivered, store>>
  /\ UNCHANGED <<mgrvars, pc, streamer_username, username, is_creator, sending, bc,
                 closed, frames, now, cleanups, exitBy, accepted, admitted, expired,
                 started>>

NextPollCalls ==
  \/ \E room \in RoomNames, question \in {"Q1", "Q2"}, options \in OptionLists,
        duration \in {30, DefaultDuration} :
       CallStartPoll(room, question, options, duration)
  \/ \E room \in RoomNames, uname \in Usernames, option_index \in -4..3 :
       CallVotePoll(room, uname, option_index)
  \/ \E room \in RoomNames : CallEndPoll(room)
  \/ \E room \in RoomNames : CallGetPoll(room)

SpecPollCalls == Init /\ [][NextPollCalls]_vars

\* Joins and leaves, called directly. A websocket object is registered once:
\* its handler calls connect when it starts and disconnect when it ends, after
\* which the server closes the socket.
Registered(ws) == \E r \in DOMAIN rooms : ws \in ConnsOf(rooms[r])

CallConnect(room, ws, uname) ==
  /\ ~closed[ws] /\ ~Registered(ws)
  /\ rooms' = connect(Mgr, room, ws, uname).rooms
  /\ bc' = [h \in Conns |->
              IF bc[h].on /\ bc[h].room = room /\ bc[h].alias
              THEN [bc[h] EXCEPT !.list = Append(@, <<ws, uname>>)]
              ELSE bc[h]]
  /\ lastCall' = [op |-> "connect", room |-> room, ws |-> ws, username |-> uname]
  /\ lastRecv' = NoFrame
  /\ UNCHANGED <<delivered, store>>
  /\ UNCHANGED <<slow_mode, last_message_times, active_polls, pc, streamer_username,
                 username, is_creator, sending, closed, now, cleanups, exitBy,
                 accepted, admitted, expired, started>>

CallDisconnect(room, ws) ==
  /\ LET M1 == disconnect(Mgr, room, ws)
     IN /\ rooms' = M1.rooms
        /\ slow_mode' = M1.slow_mode
        /\ last_message_times' = M1.last_message_times
        /\ active_polls' = M1.active_polls
  /\ bc' = [h \in Conns |->
              IF room \in DOMAIN rooms /\ bc[h].on /\ bc[h].room = room
              THEN [bc[h] EXCEPT !.alias = FALSE]
              ELSE bc[h]]
  /\ closed' = [closed EXCEPT ![ws] = TRUE]
  /\ lastCall' = [op |-> "disconnect", room |-> room, ws |-> ws]
  /\ lastRecv' = NoFrame
  /\ UNCHANGED <<delivered, store>>
  /\ accepted' = KeepAccepted(accepted)
  /\ admitted' = KeepAdmitted(admitted)
  /\ expired' = KeepExpired(admitted)
  /\ started' = KeepStarted(started)
  /\ UNCHANGED <<pc, streamer_username, username, is_creator, sending, now, cleanups,
                 exitBy>>

NextViewers ==
  \/ \E room \in TwoRooms, ws \in Sockets, uname \in Identities :
       CallConnect(room, ws, uname) /\ UNCHANGED frames
  \/ \E room \in TwoRooms, ws \in Sockets :
       CallDisconnect(room, ws) /\ UNCHANGED frames

SpecViewers == Init /\ [][NextViewers]_vars

\* Every method of the manager that is addressed to a room, called directly
\* in two rooms, the broadcasts running as tasks that await each send.
ManagerCalls ==
  {[op |-> "set_slow_mode", room |-> r, enabled |-> e] : r \in TwoRooms, e \in BOOLEAN}
  \cup {[op |-> "check_slow_mode_cooldown", room |-> r, username |-> "carol"] :
          r \in TwoRooms}
  \cup {[op |-> "start_poll", room |-> r, question |-> "Q1", options |-> AB.items,
          duration |-> 30] : r \in TwoRooms}
  \cup {[op |-> "vote_poll", room |-> r, username |-> "carol", option_index |-> 0] :
          r \in TwoRooms}
  \cup {[op |-> "end_poll", room |-> r] : r \in TwoRooms}

\* The manager after the call and what the call returns; t is time.time().
Apply(M, call, t) ==
  CASE call.op = "set_slow_mode" ->
         [M |-> set_slow_mode(M, call.room, call.enabled), res |-> None]
    [] call.op = "check_slow_mode_cooldown" ->
         LET cd == check_slow_mode_cooldown(M, call.room, call.username, t)
         IN [M |-> cd.M, res |-> cd.allowed]
    [] call.op = "start_poll" ->
         [M |-> start_poll(M, call.room, call.question, call.options, call.duration),
          res |-> None]
    [] call.op = "vote_poll" ->
         vote_poll(M, call.room, call.username, JInt(call.option_index))
    [] call.op = "end_poll" ->
         LET e == end_poll(M, call.room) IN [M |-> e.M, res |-> e.results]

ManagerCall(call, t) ==
  /\ frames < MaxCalls
  /\ frames' = frames + 1
  /\ now' = t
  /\ LET a == Apply(Mgr, call, t)
     IN /\ rooms' = a.M.rooms
        /\ slow_mode' = a.M.slow_mode
        /\ last_message_times' = a.M.last_message_times
        /\ active_polls' = a.M.active_polls
        /\ lastCall' = [op |-> call.op, room |-> call.room, call |-> call, t |-> t,
                        res |-> a.res]
  /\ lastRecv' = NoFrame
  /\ UNCHANGED <<pc, streamer_username, username, is_creator, sending, bc, closed,
                 cleanups, exitBy, accepted, admitted, expired, started, delivered,
                 store>>

\* Task h calls broadcast(room, event) and is suspended in its first send.
ManagerBroadcast(h, room) ==
  /\ frames < MaxCalls
  /\ frames' = frames + 1
  /\ pc[h] = "idle"
  /\ LET r == broadcast(Mgr, room, <<Ev("system")>>, "idle")
     IN /\ pc' = [pc EXCEPT ![h] = r.pc]
        /\ bc' = [bc EXCEPT ![h] = r.bc]
  /\ streamer_username' = [streamer_username EXCEPT ![h] = room]
  /\ lastCall' = [op |-> "broadcast", room |-> room]
  /\ lastRecv' = NoFrame
  /\ UNCHANGED <<mgrvars, username, is_creator, sending, closed, now, cleanups, exitBy,
                 accepted, admitted, expired, started, store>>
  /\ Delivery(h, <<Ev("system")>>)

\* The peer of a registered websocket goes away.
SocketCloses(ws) ==
  /\ Registered(ws)
  /\ ~closed[ws]
  /\ closed' = [closed EXCEPT ![ws] = TRUE]
  /\ lastCall' = NoCall
  /\ lastRecv' = NoFrame
  /\ UNCHANGED <<mgrvars, pc, streamer_username, username, is_creator, sending, bc,
                 frames, now, cleanups, exitBy, accepted, admitted, expired, started,
                 delivered, store>>

NextManager ==
  \/ \E room \in TwoRooms, ws \in Sockets :
       /\ frames < MaxCalls
       /\ frames' = frames + 1
       /\ CallConnect(room, ws, "carol")
  \/ \E room \in TwoRooms, ws \in Sockets :
       /\ frames < MaxCalls
       /\ frames' = frames + 1
       /\ CallDisconnect(room, ws)
  \/ \E call \in ManagerCalls, t \in {now, now + SLOW_MODE_COOLDOWN} :
       /\ t <= MaxClock
       /\ ManagerCall(call, t)
  \/ \E h \in Conns, room \in TwoRooms : ManagerBroadcast(h, room)
  \/ \E h \in Conns, ok \in BOOLEAN : SendDone(h, ok)
  \/ \E ws \in Sockets : SocketCloses(ws)

SpecManager == Init /\ [][NextManager]_vars

\* The handlers under a scheduler that runs every task that can go on: a
\* send returns or raises, receive_text() raises once the transport is closed.
\* Whether a peer sends a frame or goes away is up to the peer.
LiveFrames ==
  {[type |-> "command", action |-> "slow_mode", enabled |-> TRUE],
   [type |-> "POLL_START", data |-> PD(JStr("Q1"), AB, 30)]}

HandlerStep(c) ==
  \/ JoinSlowMode(c)
  \/ JoinPoll(c)
  \/ JoinBroadcast(c)
  \/ \E ok \in BOOLEAN : SendDone(c, ok)
  \/ RecvDisconnect(c)

NextLive ==
  \/ \E c \in Conns, room \in RoomNames, ident \in Identities : Start(c, room, ident)
  \/ \E c \in Conns : HandlerStep(c)
  \/ \E c \in Conns : Close(c)
  \/ \E c \in Conns, f \in LiveFrames :
       /\ frames < MaxLiveFrames
       /\ Receive(c, f, now)

SpecLive ==
  /\ Init /\ [][NextLive]_vars
  /\ \A c \in Conns : WF_vars(HandlerStep(c))

\* Chat under slow mode alone, with room for one more frame.
SlowFrames ==
  {f \in Frames : \/ f.type = "chat" /\ f.text = JStr("hi")
                  \/ f.type = "command" /\ f.action = "slow_mode"}

NextSlow ==
  \/ JoinLeave
  \/ \E c \in Conns, f \in SlowFrames :
       /\ frames < MaxChatFrames
       /\ \E t \in ClockChoices(c, f) : Receive(c, f, t)

SpecSlow == Init /\ [][NextSlow]_vars

\* Chats written to the table and deleted from it, in two rooms.
StoreFrames ==
  {[type |-> "chat", text |-> JStr("hi")]}
  \cup {[type |-> "command", action |-> "delete_message", msg_id |-> m] :
          m \in {"msg-1", "msg-2", "msg-x"}}

NextStore ==
  \/ \E c \in Conns, room \in TwoRooms, ident \in TwoRooms : Start(c, room, ident)
  \/ \E c \in Conns : JoinSlowMode(c)
  \/ \E c \in Conns : JoinPoll(c)
  \/ \E c \in Conns, ok \in BOOLEAN : SendDone(c, ok)
  \/ \E c \in Conns : RecvDisconnect(c)
  \/ \E c \in Conns : Close(c)
  \/ \E c \in Conns, f \in StoreFrames :
       /\ frames < MaxStoreFrames
       /\ Receive(c, f, now)

SpecStore == Init /\ [][NextStore]_vars

\* --------------------------------------------------------- sanity of the model
TypeOK ==
  /\ \A r \in DOMAIN rooms : rooms[r] # <<>>
  /\ \A h \in Conns : bc[h].on /\ bc[h].alias =>
        bc[h].room \in DOMAIN rooms /\ bc[h].list = rooms[bc[h].room]
  /\ \A h \in Conns : (pc[h] = "bsend") = bc[h].on

\* ================================================================ claims
Members(r) == ConnsOf(Get(rooms, r, <<>>))
MembersNext(r) == ConnsOf(Get(rooms', r, <<>>))
MgrNext == [rooms |-> rooms', slow_mode |-> slow_mode',
            last_message_times |-> last_message_times', active_polls |-> active_polls']

RECURSIVE SumVotes(_)
SumVotes(options) ==
  IF options = <<>> THEN 0 ELSE VotesOf(Head(options)) + SumVotes(Tail(options))

\* C1: in every reachable state a room that has no registered connection has
\* no slow-mode flag, no cooldown table and no poll stored in the manager.
NoDanglingRoomState ==
  \A r \in RoomNames :
    get_room_count(Mgr, r) = 0 =>
      /\ r \notin DOMAIN slow_mode
      /\ r \notin DOMAIN last_message_times
      /\ r \notin DOMAIN active_polls

\* C2: in one poll instance at most one vote of a username is accepted, on
\* whatever connections and in whatever interleaving its POLL_VOTE frames are
\* handled: the accepted votes name pairwise different users, the voted-set is
\* exactly those users and each of them adds 1 to the sum of the counts.
OneVotePerUser ==
  \A r \in RoomNames :
    /\ \A i, j \in DOMAIN accepted[r] :
         accepted[r][i][1] = accepted[r][j][1] => i = j
    /\ r \in DOMAIN active_polls =>
         /\ active_polls[r].voters = {accepted[r][i][1] : i \in DOMAIN accepted[r]}
         /\ SumVotes(active_polls[r].options) = Len(accepted[r])

\* C2 witness: a user's vote was accepted on one connection and, while its
\* POLL_VOTE broadcast is still in flight, the same user's vote for a valid
\* option on another connection has just been answered with an error.
SecondTabVoteRejected ==
  \E r \in RoomNames :
    /\ r \in DOMAIN active_polls
    /\ Len(accepted[r]) = 1
    /\ lastRecv.conn # 0
    /\ lastRecv.conn # accepted[r][1][2]
    /\ username[lastRecv.conn] = accepted[r][1][1]
    /\ streamer_username[lastRecv.conn] = r
    /\ lastRecv.frame.type = "POLL_VOTE"
    /\ lastRecv.frame.optionIndex \in {JInt(0), JInt(1)}
    /\ lastRecv.frame.optionIndex.v # accepted[r][1][3]
    /\ sending[lastRecv.conn].type = "error"
    /\ bc[accepted[r][1][2]].on
    /\ bc[accepted[r][1][2]].evt.type = "POLL_VOTE"

\* C3: the handler's leave removes exactly its own connection from the room's
\* list, keeping the others in order; the room's flag, cooldown table and poll
\* are deleted when this call empties the list and are untouched otherwise; a
\* leave of a connection that is not in the room changes nothing.
LeaveEffect ==
  [][\A c \in Conns :
       cleanups'[c] = cleanups[c] + 1 =>
         LET r == streamer_username[c]
             old == Get(rooms, r, <<>>)
             new == Get(rooms', r, <<>>)
         IN /\ new = SelectSeq(old, LAMBDA p : p[1] # c)
            /\ \A q \in DOMAIN rooms \ {r} : q \in DOMAIN rooms' /\ rooms'[q] = rooms[q]
            /\ (old # <<>> /\ new = <<>>) =>
                 /\ r \notin DOMAIN rooms'
                 /\ get_room_count(MgrNext, r) = 0
                 /\ ~is_slow_mode(MgrNext, r)
                 /\ r \notin DOMAIN slow_mode'
                 /\ r \notin DOMAIN last_message_times'
                 /\ get_poll(MgrNext, r) = EmptyResult
            /\ new # <<>> =>
                 /\ slow_mode' = slow_mode
                 /\ last_message_times' = last_message_times
                 /\ active_polls' = active_polls
            /\ c \notin ConnsOf(old) => UNCHANGED mgrvars]_vars

\* C3 witness: a registered connection has left a room in which slow mode is
\* on and a poll is running; another connection remains, with flag and poll.
LeftWithStateKept ==
  \E c \in Conns :
    LET r == streamer_username[c]
    IN /\ cleanups[c] = 1 /\ exitBy[c].member
       /\ r \in DOMAIN rooms /\ c \notin Members(r)
       /\ r \in DOMAIN slow_mode /\ slow_mode[r]

\* C4: a broadcast call sends only to the connections that were members of
\* the room when it began, each of them once.
BroadcastToInitialMembersOnly ==
  \A h \in Conns :
    bc[h].on =>
      /\ \A i \in 1..bc[h].idx : bc[h].list[i][1] \in bc[h].members0
      /\ \A i, j \in DOMAIN bc[h].list :
           bc[h].list[i][1] = bc[h].list[j][1] => i = j

\* C5: a broadcast ends only after every element of its list was attempted,
\* whatever sends failed, and its caller goes on (nothing is raised); the
\* connections it collected as dead are no members afterwards, and it removes
\* no connection but those and the last recipient, if that one is closed.
BroadcastEnds(c) ==
  /\ bc[c].on
  /\ ~bc'[c].on \/ Len(bc'[c].then) < Len(bc[c].then)

BroadcastSelfHeals ==
  [][\A c \in Conns :
       BroadcastEnds(c) =>
         LET b == bc[c]
             last == b.list[Len(b.list)][1]
             removed == Members(b.room) \ MembersNext(b.room)
         IN /\ b.idx = Len(b.list)
            /\ Range(b.dead) \cap MembersNext(b.room) = {}
            /\ removed \subseteq Range(b.dead) \cup {last}
            /\ last \in removed => closed[last]
            /\ pc'[c] \in {b.ret, "bsend"}
            /\ cleanups' = cleanups /\ exitBy' = exitBy]_vars

\* C5 witness: the send to the first recipient failed and the broadcast is now
\* sending to the second.
FailedSendThenNext ==
  \E c \in Conns :
    /\ bc[c].on /\ bc[c].idx = 2
    /\ bc[c].dead = <<bc[c].list[1][1]>>

\* C6: a handler that has ended, in whatever way, has run its cleanup and its
\* connection is registered no more.
CleanupOnEveryExit ==
  \A c \in Conns :
    pc[c] = "done" =>
      /\ cleanups[c] = 1
      /\ c \notin Members(streamer_username[c])

\* C7: the cleanup runs at most once for a connection, and once when the loop
\* was left by a transport close or by an exception; when the connection had
\* already been removed by a broadcast, the cleanup changes nothing in the
\* manager: no other connection is removed, no room state deleted.
CleanupOnce ==
  /\ [](\A c \in Conns :
          /\ cleanups[c] <= 1
          /\ exitBy[c].how \in {"close", "exception"} => cleanups[c] = 1)
  /\ [][\A c \in Conns :
          (cleanups'[c] # cleanups[c] /\ c \notin Members(streamer_username[c]))
            => UNCHANGED mgrvars]_vars

\* C7 witness: a connection that a broadcast had removed has run its cleanup
\* while its room still has a member of the same username.
StaleCleanupKeptOthers ==
  \E c \in Conns :
    LET r == streamer_username[c]
    IN /\ cleanups[c] = 1 /\ ~exitBy[c].member
       /\ r \in DOMAIN rooms
       /\ \E i \in DOMAIN rooms[r] : rooms[r][i][2] = username[c]

\* C8: a frame that is malformed, or needs an identity its sender lacks, or is
\* creator-only and comes from a non-creator, leaves the connection registered
\* and the handler waiting for the next frame.
Malformed(f) ==
  \/ f.type \in {"not_json", "non_object"}
  \/ f.type = "POLL_VOTE" /\ f.optionIndex.t # "int"
  \/ f.type = "POLL_START" /\ f.data.t # "obj"
  \/ f.type = "POLL_START" /\ f.data.t = "obj" /\ f.data.question.t # "str"
  \/ f.type = "POLL_START" /\ f.data.t = "obj" /\ f.data.options.t # "list"
  \/ f.type = "chat" /\ f.text.t # "str"

ProtocolError(c, f) ==
  \/ Malformed(f)
  \/ f.type \in {"POLL_VOTE", "chat"} /\ username[c] = None
  \/ CreatorOnly(f) /\ username[c] # streamer_username[c]

ProtocolErrorsNotFatal ==
  [][lastRecv'.conn # 0 =>
       LET c == lastRecv'.conn
           r == streamer_username[c]
       IN ProtocolError(c, lastRecv'.frame) =>
            /\ pc'[c] = "recv"
            /\ cleanups'[c] = cleanups[c]
            /\ c \in Members(r) => c \in MembersNext(r)]_vars

\* C9: a broadcast of a slow_mode, brb, message_deleted, POLL_START or
\* POLL_END event in a room is issued by a connection whose identity is the
\* room key, and the room's slow-mode flag and the presence, question and
\* option labels of its poll change only in a step that handles a creator-only
\* frame of such a connection, or that deletes the emptied room.
ControlEvents == {"slow_mode", "brb", "message_deleted", "POLL_START", "POLL_END"}

FlagOf(S, r) == [present |-> r \in DOMAIN S, on |-> Get(S, r, FALSE)]

PollShape(P, r) ==
  IF r \in DOMAIN P
  THEN [present |-> TRUE, question |-> P[r].question,
        labels |-> [i \in DOMAIN P[r].options |-> P[r].options[i].text]]
  ELSE [present |-> FALSE]

OnlyCreatorControls ==
  /\ [](\A h \in Conns :
          (bc[h].on /\ bc[h].evt.type \in ControlEvents) =>
             /\ streamer_username[h] = bc[h].room
             /\ username[h] = bc[h].room)
  /\ [][\A r \in RoomNames :
          (\/ FlagOf(slow_mode', r) # FlagOf(slow_mode, r)
           \/ PollShape(active_polls', r) # PollShape(active_polls, r))
          => \/ /\ lastRecv'.conn # 0
                /\ streamer_username[lastRecv'.conn] = r
                /\ username[lastRecv'.conn] = r
                /\ CreatorOnly(lastRecv'.frame)
             \/ /\ r \in DOMAIN rooms /\ r \notin DOMAIN rooms'
                /\ r \notin DOMAIN slow_mode' /\ r \notin DOMAIN active_polls']_vars

\* C9 witness: a logged-in viewer who is not the creator has just sent the
\* command that turns slow mode off, and slow mode is still on.
ViewerCommandIgnored ==
  /\ lastRecv.conn # 0
  /\ username[lastRecv.conn] = "bob"
  /\ streamer_username[lastRecv.conn] = "alice"
  /\ lastRecv.frame = [type |-> "command", action |-> "slow_mode", enabled |-> FALSE]
  /\ "alice" \in DOMAIN slow_mode /\ slow_mode["alice"]
  /\ pc[lastRecv.conn] = "recv"

\* C10: a creator-only frame from a connection that is not the creator is
\* answered with one private error to the sender and changes nothing else.
NonCreatorGetsError ==
  [][lastRecv'.conn # 0 =>
       LET c == lastRecv'.conn
       IN (CreatorOnly(lastRecv'.frame) /\ username[c] # streamer_username[c]) =>
            /\ sending'[c].type = "error"
            /\ pc'[c] = "recv"
            /\ UNCHANGED mgrvars]_vars

\* C11: a connection without identity is read-only: no frame it sends makes
\* its handler broadcast a chat or POLL_VOTE event, hand a chat row to the
\* store, record a cooldown timestamp or change a poll's counts or voted-set;
\* its chat and POLL_VOTE frames are answered with an error to it alone.
IdentityEvents == {"chat", "POLL_VOTE"}

AnonymousReadOnly ==
  /\ [](\A h \in Conns :
          (bc[h].on /\ bc[h].evt.type \in IdentityEvents) => username[h] # None)
  /\ [][lastRecv'.conn # 0 =>
          LET c == lastRecv'.conn
              f == lastRecv'.frame
          IN username[c] = None =>
               /\ lastRecv'.db = NoRow
               /\ \A r \in DOMAIN last_message_times' :
                     /\ r \in DOMAIN last_message_times
                     /\ last_message_times'[r] = last_message_times[r]
               /\ \A r \in DOMAIN active_polls' :
                     /\ r \in DOMAIN active_polls
                     /\ active_polls'[r] = active_polls[r]
               /\ f.type \in {"chat", "POLL_VOTE"} =>
                     /\ sending'[c].type = "error"
                     /\ pc'[c] = "recv" /\ ~bc'[c].on
                     /\ \A h \in Conns \ {c} : sending'[h] = sending[h]
                     /\ UNCHANGED mgrvars]_vars

\* C11 witness: an anonymous member of a room in which a poll is running and
\* another connection is registered has just sent a vote for a valid option
\* and got the error.
AnonymousVoteRefused ==
  /\ lastRecv.conn # 0
  /\ username[lastRecv.conn] = None
  /\ lastRecv.frame = [type |-> "POLL_VOTE", optionIndex |-> JInt(0)]
  /\ sending[lastRecv.conn].type = "error"
  /\ streamer_username[lastRecv.conn] \in DOMAIN active_polls
  /\ Cardinality(Members(streamer_username[lastRecv.conn])) = 2

\* C12: while slow mode stays on in a room, a chat of a non-creator user is
\* persisted or broadcast only when at least SLOW_MODE_COOLDOWN seconds have
\* passed since the user's last admitted chat, whatever connection sent that;
\* a chat frame that comes sooner is neither persisted nor broadcast and its
\* sender alone gets the error that names the cooldown.
CooldownError == ErrorEv("Slow mode is on. Wait 5s between messages.")

Times(T, r) == Get(T, r, EmptyDict)

\* C13: check_slow_mode_cooldown agrees with the reference on every sequence
\* of calls with a clock that never goes back. Slow mode off: the result is
\* true and no timestamp changes. Slow mode on: the result is true iff at least
\* SLOW_MODE_COOLDOWN seconds (exactly that many included) have passed since
\* the user's last allowed call of the present period, taken as 0 when there
\* is none; an allowed call stores the time of the call for the user, a
\* rejected one stores nothing, and no other user's timestamp changes.
CooldownMatchesReference ==
  /\ [](\A r \in RoomNames : is_slow_mode(Mgr, r) => Times(last_message_times, r) = admitted[r])
  /\ [][lastCall'.op = "check_slow_mode_cooldown" =>
          LET r == lastCall'.room
              u == lastCall'.username
              t == lastCall'.t
              old == Times(last_message_times, r)
              new == Times(last_message_times', r)
          IN IF ~is_slow_mode(Mgr, r)
             THEN lastCall'.allowed /\ UNCHANGED mgrvars
             ELSE /\ lastCall'.allowed = (t - Get(admitted[r], u, 0) >= SLOW_MODE_COOLDOWN)
                  /\ new = IF lastCall'.allowed THEN Put(old, u, t) ELSE old
                  /\ slow_mode' = slow_mode]_vars

\* C13 witness: a call exactly SLOW_MODE_COOLDOWN seconds after the user's
\* previous allowed call has just been allowed, another user's timestamp being
\* stored.
AllowedAtExactlyCooldown ==
  /\ lastCall.op = "check_slow_mode_cooldown"
  /\ lastCall.allowed
  /\ lastCall.t = 2 * SLOW_MODE_COOLDOWN
  /\ admitted[lastCall.room] =
       [u \in Usernames |-> IF u = lastCall.username THEN lastCall.t
                            ELSE SLOW_MODE_COOLDOWN]

DisableClearsCooldowns ==
  /\ [][lastCall'.op = "set_slow_mode" =>
          LET r == lastCall'.room
          IN /\ ~lastCall'.enabled => Times(last_message_times', r) = EmptyDict
             /\ (lastCall'.enabled /\ is_slow_mode(Mgr, r)) =>
                   last_message_times' = last_message_times
             /\ is_slow_mode(MgrNext, r) = lastCall'.enabled]_vars
  /\ [][lastCall'.op = "check_slow_mode_cooldown" =>
          LET r == lastCall'.room
              u == lastCall'.username
          IN (is_slow_mode(Mgr, r) /\ u \in DOMAIN expired[r] /\ u \notin DOMAIN admitted[r])
               => lastCall'.allowed]_vars

\* C15 witness: a user admitted at some time, slow mode turned off and on
\* again, has just been allowed again at that very time.
AllowedRightAfterReenable ==
  /\ lastCall.op = "check_slow_mode_cooldown"
  /\ lastCall.allowed
  /\ is_slow_mode(Mgr, lastCall.room)
  /\ lastCall.username \in DOMAIN expired[lastCall.room]
  /\ expired[lastCall.room][lastCall.username] = lastCall.t

\* C16: a chat frame with non-blank text from a connection whose identity is
\* the room key is persisted and broadcast whatever the slow-mode flag and
\* the time of the creator's last chat, and the step changes no cooldown
\* timestamp and answers no error.
CreatorExempt ==
  [][lastRecv'.conn # 0 =>
       LET c == lastRecv'.conn
           f == lastRecv'.frame
           r == streamer_username[c]
       IN (/\ f.type = "chat" /\ username[c] = r
           /\ f.text.t = "str" /\ Strip(f.text.v) # "") =>
            LET chat == [type |-> "chat", id |-> bc'[c].evt.id, user |-> r,
                         text |-> Strip(f.text.v), isMod |-> TRUE]
            IN /\ lastRecv'.db = [added |-> TRUE, room |-> r, sender |-> r,
                                   text |-> Strip(f.text.v), is_mod |-> TRUE]
               /\ UNCHANGED mgrvars
               /\ admitted' = admitted
               /\ sending'[c] = NoEvt
               /\ IF r \in DOMAIN rooms
                  THEN /\ bc'[c].on /\ bc'[c].evt.type = "chat"
                       /\ bc'[c].evt = chat /\ bc'[c].list = rooms[r]
                  ELSE pc'[c] = "recv"]_vars

\* C16 witness: slow mode is on, a viewer was admitted at this very time, and
\* the creator's chat has just been taken and is being broadcast.
CreatorChatsUnderSlowMode ==
  /\ lastRecv.conn # 0
  /\ lastRecv.frame.type = "chat"
  /\ username[lastRecv.conn] = streamer_username[lastRecv.conn]
  /\ is_slow_mode(Mgr, streamer_username[lastRecv.conn])
  /\ \E u \in DOMAIN admitted[streamer_username[lastRecv.conn]] :
       admitted[streamer_username[lastRecv.conn]][u] = now
  /\ bc[lastRecv.conn].on
  /\ bc[lastRecv.conn].evt.type = "chat"
  /\ Len(bc[lastRecv.conn].list) = 2

\* C17: vote_poll with an integer index returns false exactly when the room
\* has no poll, or the user is in the poll's voted-set, or the index is
\* outside [0, number of options); a rejected vote changes no poll; an
\* accepted one adds 1 to the count of that option alone and the user to the
\* voted-set, and changes nothing else.
VoteRejectsExactly ==
  [][lastCall'.op = "vote_poll" =>
       LET r == lastCall'.room
           u == lastCall'.username
           i == lastCall'.option_index
           reject == \/ r \notin DOMAIN active_polls
                     \/ u \in active_polls[r].voters
                     \/ i < 0
                     \/ i >= Len(active_polls[r].options)
       IN IF reject
          THEN lastCall'.res = "false" /\ active_polls' = active_polls
          ELSE LET old == active_polls[r]
                   new == active_polls'[r]
               IN /\ lastCall'.res = "true"
                  /\ DOMAIN active_polls' = DOMAIN active_polls
                  /\ \A q \in DOMAIN active_polls \ {r} : active_polls'[q] = active_polls[q]
                  /\ new.question = old.question /\ new.duration = old.duration
                  /\ new.voters = old.voters \cup {u}
                  /\ Len(new.options) = Len(old.options)
                  /\ \A k \in DOMAIN old.options :
                        /\ new.options[k].text = old.options[k].text
                        /\ VotesOf(new.options[k]) =
                             VotesOf(old.options[k]) + (IF k = i + 1 THEN 1 ELSE 0)
                        /\ k # i + 1 => new.options[k] = old.options[k]]_vars

\* C17 witness: with a poll of three options running, a user who has not
\* voted has just been rejected for the index 3, another user having voted.
VoteOutOfRangeRejected ==
  /\ lastCall.op = "vote_poll"
  /\ lastCall.res = "false"
  /\ lastCall.room \in DOMAIN active_polls
  /\ Len(active_polls[lastCall.room].options) = 3
  /\ lastCall.option_index = 3
  /\ active_polls[lastCall.room].voters = Usernames \ {lastCall.username}

\* C20: start_poll replaces the room's poll outright: the stored poll has the
\* question, options and duration of the call and an empty voted-set, a plain
\* label has 0 votes and a record keeps its vote seed (or its lack of one);
\* nothing else changes; and every user who has not voted since that start is
\* accepted for a valid option, whatever he voted in the replaced poll.
Normalized(opt) ==
  IF opt.t = "str" THEN [text |-> opt.text, votes |-> 0]
  ELSE [x \in DOMAIN opt \ {"t"} |-> opt[x]]

StartReplacesPoll ==
  /\ [][lastCall'.op = "start_poll" =>
          LET r == lastCall'.room
          IN /\ r \in DOMAIN active_polls'
             /\ active_polls'[r] =
                  [question |-> lastCall'.question,
                   options |-> [k \in DOMAIN lastCall'.options |->
                                  Normalized(lastCall'.options[k])],
                   duration |-> lastCall'.duration,
                   voters |-> {}]
             /\ \A q \in DOMAIN active_polls \ {r} :
                   q \in DOMAIN active_polls' /\ active_polls'[q] = active_polls[q]
             /\ UNCHANGED <<rooms, slow_mode, last_message_times>>]_vars
  /\ [][lastCall'.op = "vote_poll" =>
          LET r == lastCall'.room
          IN (/\ r \in DOMAIN active_polls
              /\ lastCall'.option_index \in 0..(Len(active_polls[r].options) - 1)
              /\ \A k \in DOMAIN accepted[r] : accepted[r][k][1] # lastCall'.username)
               => lastCall'.res = "true"]_vars

\* C20 witness: a poll in which everybody had voted has just been replaced by
\* one with another question and with an option that carries a vote seed.
StartOverVotedPoll ==
  /\ lastCall.op = "start_poll"
  /\ lastCall.replaced.running
  /\ lastCall.replaced.poll.voters = Usernames
  /\ lastCall.replaced.poll.question # lastCall.question
  /\ lastCall.options = <<JOption("A", 2), JLabel("B")>>
  /\ active_polls[lastCall.room].voters = {}

\* C18: a POLL_VOTE frame from a connection with an identity has exactly one
\* of two outcomes: the vote is accepted and the POLL_VOTE event with the
\* option index alone is broadcast to the room, or the vote is not accepted
\* and the sender is sent an error; never both, never neither.
VoteAnsweredOnce ==
  [][lastRecv'.conn # 0 =>
       LET c == lastRecv'.conn
           f == lastRecv'.frame
           r == streamer_username[c]
           taken == active_polls' # active_polls
           error == sending'[c].type = "error"
       IN (f.type = "POLL_VOTE" /\ username[c] # None) =>
            \/ /\ taken /\ ~error
               /\ r \in DOMAIN rooms =>
                     /\ bc'[c].on /\ bc'[c].list = rooms[r]
                     /\ bc'[c].evt = [type |-> "POLL_VOTE", optionIndex |-> f.optionIndex.v]
            \/ /\ ~taken /\ error
               /\ ~bc'[c].on]_vars

\* C19: a POLL_START of the creator whose question is blank, or that lists
\* fewer than two options, is answered with an error, broadcasts nothing and
\* changes no poll; one with a non-blank question and two options or more
\* stores the poll (counts 0, nobody voted) and broadcasts its snapshot.
PollStartValidated ==
  [][lastRecv'.conn # 0 =>
       LET c == lastRecv'.conn
           f == lastRecv'.frame
           r == streamer_username[c]
       IN (/\ f.type = "POLL_START" /\ username[c] = r
           /\ f.data.t = "obj" /\ f.data.question.t = "str"
           /\ Strip(f.data.question.v) = "" \/ f.data.options.t = "list") =>
            IF \/ Strip(f.data.question.v) = ""
               \/ Len(f.data.options.items) < 2
            THEN /\ sending'[c] = ErrorEv("Invalid poll data")
                 /\ pc'[c] = "recv" /\ ~bc'[c].on
                 /\ UNCHANGED mgrvars
            ELSE LET poll == [question |-> Strip(f.data.question.v),
                              options |-> [k \in DOMAIN f.data.options.items |->
                                            [text |-> f.data.options.items[k].text,
                                             votes |-> 0]],
                              duration |-> f.data.duration]
                 IN /\ r \in DOMAIN active_polls'
                    /\ PollView(active_polls'[r]) = poll
                    /\ active_polls'[r].voters = {}
                    /\ sending'[c] = NoEvt
                    /\ r \in DOMAIN rooms =>
                          /\ bc'[c].on /\ bc'[c].list = rooms[r]
                          /\ bc'[c].evt = [type |-> "POLL_START", data |-> poll]]_vars

\* C19 witness: the creator's POLL_START with a blank question or a single
\* option has just been refused while a poll with a vote is running.
InvalidStartKeptPoll ==
  /\ lastRecv.conn # 0
  /\ lastRecv.frame.type = "POLL_START"
  /\ sending[lastRecv.conn] = ErrorEv("Invalid poll data")
  /\ streamer_username[lastRecv.conn] \in DOMAIN active_polls
  /\ active_polls[streamer_username[lastRecv.conn]].voters # {}

\* The number of accepted votes for the option of index k.
CountFor(acc, k) == Cardinality({i \in DOMAIN acc : acc[i][3] = k})

\* What a poll started with the arguments st and voted as acc is to show: a
\* plain label counts from 0, a record from its own seed.
ExpectedView(st, acc) ==
  [question |-> st.question,
   options |-> [k \in DOMAIN st.options |->
                  LET o == st.options[k]
                      n == CountFor(acc, k - 1)
                  IN IF o.t = "str" THEN [text |-> o.text, votes |-> n]
                     ELSE IF "votes" \in DOMAIN o
                          THEN [text |-> o.text, votes |-> o.votes + n]
                     ELSE IF n = 0 THEN [text |-> o.text]
                     ELSE [text |-> o.text, votes |-> n]],
   duration |-> st.duration]

\* C21: poll round trip. From start_poll on, get_poll returns the question,
\* the options in the order given (a label with 0 votes plus the votes accepted
\* since) and the duration of that call, and changes nothing, so that a
\* repeated call returns the same; end_poll returns that same view and removes
\* the poll; with no poll stored get_poll and end_poll return the empty result
\* and vote_poll returns false.
PollRoundTrip ==
  /\ [](\A r \in RoomNames :
          /\ started[r].running = (r \in DOMAIN active_polls)
          /\ get_poll(Mgr, r) = IF started[r].running
                                THEN ExpectedView(started[r], accepted[r])
                                ELSE EmptyResult)
  /\ [][lastCall'.op = "get_poll" =>
          /\ UNCHANGED mgrvars
          /\ lastCall'.results = get_poll(MgrNext, lastCall'.room)]_vars
  /\ [][lastCall'.op = "end_poll" =>
          LET r == lastCall'.room
          IN /\ lastCall'.results = IF started[r].running
                                    THEN ExpectedView(started[r], accepted[r])
                                    ELSE EmptyResult
             /\ r \notin DOMAIN active_polls'
             /\ get_poll(MgrNext, r) = EmptyResult
             /\ \A q \in DOMAIN active_polls \ {r} :
                   q \in DOMAIN active_polls' /\ active_polls'[q] = active_polls[q]
             /\ UNCHANGED <<rooms, slow_mode, last_message_times>>]_vars
  /\ [][(lastCall'.op = "vote_poll" /\ ~started[lastCall'.room].running) =>
          lastCall'.res = "false" /\ UNCHANGED mgrvars]_vars

\* C21 witness: a poll started with the labels A and B and the duration 30,
\* in which both users voted, has just been ended: the results carry the two
\* counts and the poll is gone.
EndedAfterTwoVotes ==
  /\ lastCall.op = "end_poll"
  /\ lastCall.results # EmptyResult
  /\ lastCall.results.question = "Q1"
  /\ lastCall.results.options = <<[text |-> "A", votes |-> 1], [text |-> "B", votes |-> 1]>>
  /\ lastCall.results.duration = 30
  /\ lastCall.room \notin DOMAIN active_polls

\* The manager with the voted-set of room r's poll replaced by V.
WithVoters(M, r, V) ==
  [M EXCEPT !.active_polls = Put(M.active_polls, r, [M.active_polls[r] EXCEPT !.voters = V])]

Voters == SUBSET (Identities \ {None})

PollFrameTypes == {"POLL_START", "POLL_VOTE", "POLL_END"}

\* What the handler of c answers to frame f when the manager is M.
Answer(M, c, f) ==
  LET d == Dispatch(M, streamer_username[c], username[c], is_creator[c], f, now)
  IN [k |-> d.k, evts |-> d.evts]

\* The poll events in flight carry these fields and no other.
PollEventFields(e) ==
  CASE e.type = "poll_update" -> DOMAIN e.poll = {"question", "options", "duration"}
    [] e.type = "POLL_START" -> DOMAIN e.data = {"question", "options", "duration"}
    [] e.type = "POLL_END" -> \/ e.data = EmptyResult
                              \/ DOMAIN e.data = {"question", "options", "duration"}
    [] e.type = "POLL_VOTE" -> DOMAIN e = {"type", "optionIndex"}
    [] OTHER -> TRUE

VotedSetUnseen ==
  /\ \A r \in DOMAIN active_polls, V \in Voters :
        /\ get_poll(WithVoters(Mgr, r, V), r) = get_poll(Mgr, r)
        /\ end_poll(WithVoters(Mgr, r, V), r).results = end_poll(Mgr, r).results
  /\ \A h \in Conns :
        /\ PollEventFields(sending[h])
        /\ bc[h].on => /\ PollEventFields(bc[h].evt)
                       /\ \A i \in DOMAIN bc[h].then : PollEventFields(bc[h].then[i])

\* The join replay of the poll is the same whoever has voted.
ReplayUnseen ==
  \A c \in Conns :
    (pc[c] = "sp_slow" /\ pc'[c] = "sp_poll") =>
      \A V \in Voters :
        sending'[c] = [type |-> "poll_update",
                       poll |-> get_poll(WithVoters(Mgr, streamer_username[c], V),
                                         streamer_username[c])]

\* C22 as stated: two manager states that differ in the voted-set of a poll
\* alone give the same get_poll, the same end_poll and the same events for the
\* join replay and for every POLL_START, POLL_VOTE and POLL_END frame.
VotedSetNeverObservable ==
  /\ []VotedSetUnseen
  /\ [][ReplayUnseen]_vars
  /\ [][(lastRecv'.conn # 0 /\ lastRecv'.frame.type \in PollFrameTypes) =>
          LET c == lastRecv'.conn
              r == streamer_username[c]
          IN r \in DOMAIN active_polls =>
               \A V \in Voters :
                 Answer(WithVoters(Mgr, r, V), c, lastRecv'.frame)
                   = Answer(Mgr, c, lastRecv'.frame)]_vars

\* C22, amended: the same, but for a POLL_VOTE frame the two states agree on
\* whether the sender himself is in the voted-set: the answer to a vote tells
\* its sender (error) and the room (POLL_VOTE event) whether that one user had
\* voted, and nothing else of the set; the event carries the option index
\* alone.
VotedSetHidden ==
  /\ []VotedSetUnseen
  /\ [][ReplayUnseen]_vars
  /\ [][(lastRecv'.conn # 0 /\ lastRecv'.frame.type \in PollFrameTypes) =>
          LET c == lastRecv'.conn
              r == streamer_username[c]
              f == lastRecv'.frame
          IN r \in DOMAIN active_polls =>
               \A V \in Voters :
                 (f.type = "POLL_VOTE" =>
                    (username[c] \in V) = (username[c] \in active_polls[r].voters))
                 => Answer(WithVoters(Mgr, r, V), c, f) = Answer(Mgr, c, f)]_vars

\* C22 witness: a connection joining a room whose poll has a voter is being
\* sent the poll's snapshot.
ReplayedWithVoters ==
  \E c \in Conns :
    /\ pc[c] = "sp_poll"
    /\ sending[c].type = "poll_update"
    /\ streamer_username[c] \in DOMAIN active_polls
    /\ active_polls[streamer_username[c]].voters # {}

Display(uname) == IF uname = None THEN "Anonymous" ELSE uname

\* The place of the first connection of room r shown as name d.
FirstOf(r, d) ==
  CHOOSE i \in DOMAIN rooms[r] :
    /\ Display(rooms[r][i][2]) = d
    /\ \A j \in 1..(i - 1) : Display(rooms[r][j][2]) # d

\* C23: after any sequence of joins and leaves get_viewer_list(r) holds the
\* display names of r's present connections but r itself, each once, in the
\* order in which the first connection of each name joined, and
\* get_room_count(r) is the number of r's connections.
ViewerListCorrect ==
  \A r \in TwoRooms :
    LET l == Get(rooms, r, <<>>)
        v == get_viewer_list(Mgr, r)
        names == {Display(l[i][2]) : i \in DOMAIN l} \ {r}
    IN /\ Range(v) = names
       /\ Len(v) = Cardinality(names)
       /\ \A i, j \in DOMAIN v : i < j => FirstOf(r, v[i]) < FirstOf(r, v[j])
       /\ get_room_count(Mgr, r) =
            Cardinality({ws \in Sockets : ws \in ConnsOf(l)})

\* C23 witness: bob has joined a room, then the streamer, then bob again: the
\* list is bob alone and the count is 3.
TwoTabsAndStreamer ==
  \E r \in TwoRooms :
    /\ r \in DOMAIN rooms
    /\ [i \in DOMAIN rooms[r] |-> rooms[r][i][2]] = <<"bob", r, "bob">>
    /\ get_viewer_list(Mgr, r) = <<"bob">>
    /\ get_room_count(Mgr, r) = 3

\* C24: the events one handler broadcasts for one frame reach every
\* connection in the order of the broadcast calls: when the handler sends an
\* event to a connection, it has sent that connection none of the events it
\* issues later, whatever other handlers broadcast and whoever joins or leaves
\* meanwhile.
InIssueOrder ==
  [][\A h \in Conns :
       (NewSend(h) /\ \E p \in DOMAIN sent'[h].issued : sent'[h].issued[p] = bc'[h].evt) =>
         LET p == PosIn(sent'[h].issued, bc'[h].evt)
         IN \A q \in DOMAIN sent'[h].issued :
              /\ q > p => Target(h) \notin sent'[h].to[q]
              /\ q < p => ~(bc[h].on /\ bc[h].evt = sent'[h].issued[q]
                              /\ bc[h].idx < Len(bc[h].list))]_vars

\* C24 witness: the creator's handler has sent both the slow_mode flag and its
\* notice to another connection while that connection's handler was itself
\* broadcasting.
BothSentDuringOtherBroadcast ==
  \E h \in Conns, x \in Conns :
    /\ x # h
    /\ Len(sent[h].issued) = 2
    /\ sent[h].issued[1].type = "slow_mode"
    /\ x \in sent[h].to[1] \cap sent[h].to[2]
    /\ bc[x].on

\* C25: a chat frame that passed the identity, text and cooldown tests is
\* broadcast once whether the write to the table went through or not: with
\* the id of the new row when it did, with an id made of the timestamp and no
\* row when it did not; no error is sent, the connection stays registered and
\* open, and the handler returns to receive_text after the broadcast.
StorageFailureTolerated ==
  [][(lastRecv'.conn # 0 /\ lastRecv'.db.added) =>
       LET c == lastRecv'.conn
           r == streamer_username[c]
           row == lastRecv'.db
           chat(id) == [type |-> "chat", id |-> id, user |-> row.sender,
                        text |-> row.text, isMod |-> row.is_mod]
           evt == IF lastRecv'.ok
                  THEN chat([kind |-> "stored", n |-> CHOOSE n \in {x.id : x \in store' \ store} : TRUE])
                  ELSE chat([kind |-> "timestamp"])
       IN /\ IF lastRecv'.ok
             THEN \E n \in 1..(Cardinality(store) + 1) :
                    /\ \A x \in store : x.id # n
                    /\ store' = store \cup {RowOf(row, n)}
             ELSE store' = store
          /\ IF r \in DOMAIN rooms
             THEN /\ bc'[c].on /\ bc'[c].evt = evt /\ bc'[c].then = <<>>
                  /\ bc'[c].list = rooms[r] /\ bc'[c].ret = "recv"
             ELSE pc'[c] = "recv"
          /\ sending'[c] = NoEvt
          /\ rooms' = rooms
          /\ closed' = closed /\ cleanups' = cleanups]_vars

\* C25 witness: the write of a viewer's chat has failed and the chat, with the
\* timestamp id, is being broadcast to the two members of the room.
ChatBroadcastAfterFailedWrite ==
  /\ lastRecv.conn # 0
  /\ lastRecv.db.added /\ ~lastRecv.ok
  /\ ~is_creator[lastRecv.conn]
  /\ store = {}
  /\ bc[lastRecv.conn].on
  /\ bc[lastRecv.conn].evt.type = "chat"
  /\ bc[lastRecv.conn].evt.id.kind = "timestamp"
  /\ Len(bc[lastRecv.conn].list) = 2

\* What a client that applies the snapshot and then the increments shows
\* for option k (k counted from 1; the events count options from 0).
ClientCount(x, k) == VotesOf(snap[x].options[k]) + Get(tally[x], k - 1, 0)

NoSendInProgress == \A h \in Conns : ~bc[h].on

NoSendFailed == \A ws \in Sockets : ~closed[ws]

\* C26: a connection that was sent the poll_update snapshot of the running
\* poll of its room shows, for every option, the server's count (snapshot
\* count plus the POLL_VOTE events sent to it since) whenever no broadcast is
\* in progress, provided no send has failed and the poll was not replaced.
JoinerConsistent ==
  \A x \in Conns :
    LET r == streamer_username[x]
    IN (/\ snap[x].got
        /\ NoSendFailed
        /\ NoSendInProgress
        /\ r \in DOMAIN active_polls
        /\ x \in ConnsOf(Get(rooms, r, <<>>))) =>
         /\ Len(snap[x].options) = Len(active_polls[r].options)
         /\ \A k \in DOMAIN active_polls[r].options :
              ClientCount(x, k) = VotesOf(active_polls[r].options[k])

\* The count an option of the start_poll call came with.
Seed(opt) == IF opt.t = "obj" /\ "votes" \in DOMAIN opt THEN opt.votes ELSE 0

RECURSIVE SeedSum(_)
SeedSum(options) ==
  IF options = <<>> THEN 0 ELSE Seed(Head(options)) + SeedSum(Tail(options))

\* The accepted votes of the running poll of room r for option k (from 0).
VotesFor(r, k) == Cardinality({i \in DOMAIN accepted[r] : accepted[r][i][3] = k})

\* The counts follow the votes: an option's count is its initial count plus
\* the accepted votes for it, the counts sum up to the initial counts plus
\* the size of the voted-set, and one POLL_VOTE broadcast was called for each
\* member of the voted-set.
PollCountsTrack ==
  \A r \in DOMAIN active_polls :
    LET poll == active_polls[r]
    IN /\ started[r].running
       /\ Len(poll.options) = Len(started[r].options)
       /\ \A k \in DOMAIN poll.options :
            VotesOf(poll.options[k]) = Seed(started[r].options[k]) + VotesFor(r, k - 1)
       /\ SumVotes(poll.options) = SeedSum(started[r].options) + Cardinality(poll.voters)
       /\ Len(accepted[r]) = Cardinality(poll.voters)

\* C27: for every running poll each option's count is a non-negative integer,
\* the counts sum up to the options' initial counts plus the size of the
\* voted-set, and the number of POLL_VOTE events broadcast for the poll is
\* the size of the voted-set.
PollCountsSound ==
  \A r \in DOMAIN active_polls :
    LET poll == active_polls[r]
    IN /\ \A k \in DOMAIN poll.options : VotesOf(poll.options[k]) \in Nat
       /\ SumVotes(poll.options) = SeedSum(started[r].options) + Cardinality(poll.voters)
       /\ Len(accepted[r]) = Cardinality(poll.voters)

\* f"msg-{chat_msg.id}": the id a stored chat is broadcast with.
MsgIds == <<"msg-1", "msg-2", "msg-3">>
MsgId(n) == MsgIds[n]

\* C30: a step removes a row of the table only as the delete_message of a
\* creator's handler, and then exactly one row, whose id is the one of the
\* msg_id and whose room is the room of that handler; a delete that fails or
\* whose msg_id is no id removes nothing. In either case the message_deleted
\* event was sent to every connection of the room's list before.
DeleteScoped ==
  [][/\ store \ store' # {} =>
          /\ lastCall'.op = "delete"
          /\ lastCall'.ok
          /\ is_creator[lastCall'.conn]
          /\ \E row \in store :
               /\ store' = store \ {row}
               /\ row.room = streamer_username[lastCall'.conn]
               /\ MsgId(row.id) = lastCall'.msg_id
     /\ lastCall'.op = "delete" =>
          LET c == lastCall'.conn
              evt == [type |-> "message_deleted", msg_id |-> lastCall'.msg_id]
          IN /\ (~lastCall'.ok \/ lastCall'.msg_id \notin Range(MsgIds)) => store' = store
             /\ store' \subseteq store
             /\ IF streamer_username[c] \in DOMAIN rooms \/ bc[c].on
                THEN /\ bc[c].on /\ bc[c].evt = evt
                     /\ sent[c].issued = <<evt>>
                     /\ sent[c].to[1] = ConnsOf(bc[c].list)
                ELSE lastRecv'.conn = c]_vars

\* C30 witness: the creator of one room has sent delete_message with the id
\* of a chat stored for the other room, the delete went through, and the row
\* is still in the table.
OtherRoomRowSurvives ==
  /\ lastCall.op = "delete"
  /\ lastCall.ok
  /\ \E row \in store : /\ MsgId(row.id) = lastCall.msg_id
                        /\ row.room # lastCall.room

\* A delete that failed left the row it names in the table.
FailedDeleteKeepsRow ==
  /\ lastCall.op = "delete"
  /\ ~lastCall.ok
  /\ \E row \in store : /\ MsgId(row.id) = lastCall.msg_id
                        /\ row.room = lastCall.room

\* What the manager holds for room r.
Entry(d, r) == IF r \in DOMAIN d THEN <<d[r]>> ELSE <<>>

RoomOf(M, r) ==
  [list |-> Entry(M.rooms, r), flag |-> Entry(M.slow_mode, r),
   times |-> Entry(M.last_message_times, r), poll |-> Entry(M.active_polls, r)]

\* The manager with the other rooms taken away.
Restrict(d, r) == [k \in DOMAIN d \cap {r} |-> d[k]]

Only(M, r) ==
  [rooms |-> Restrict(M.rooms, r), slow_mode |-> Restrict(M.slow_mode, r),
   last_message_times |-> Restrict(M.last_message_times, r),
   active_polls |-> Restrict(M.active_polls, r)]

\* The room the step is addressed to: that of the call made, or that of the
\* broadcast that goes on.
StepRooms ==
  IF lastCall'.op # "none" THEN {lastCall'.room}
  ELSE {bc[h].room : h \in {x \in Conns : /\ bc[x].on
                                         /\ (~bc'[x].on \/ bc'[x].idx # bc[x].idx)}}

\* C28: a step addressed to room A (connect, disconnect, a broadcast and each
\* of its sends, failing or not, set_slow_mode, check_slow_mode_cooldown,
\* start_poll, vote_poll, end_poll) changes the list, flag, cooldown table and
\* poll of no other room and sends to no websocket registered in another room
\* alone; what a call returns and does to A is what it returns and does when
\* the manager holds nothing but A, so that a username's cooldown and vote in
\* one room do not depend on those in the other.
RoomsIsolated ==
  [][/\ Cardinality(StepRooms) <= 1
     /\ \A B \in TwoRooms : RoomOf(MgrNext, B) # RoomOf(Mgr, B) => B \in StepRooms
     /\ \A h \in Conns : NewSend(h) =>
          \A B \in TwoRooms \ {bc'[h].room} :
            ~(Target(h) \in MembersNext(B) /\ Target(h) \notin MembersNext(bc'[h].room))
     /\ lastCall'.op \in {call.op : call \in ManagerCalls} =>
          LET A == lastCall'.room
              a == Apply(Only(Mgr, A), lastCall'.call, lastCall'.t)
          IN /\ a.res = lastCall'.res
             /\ RoomOf(a.M, A) = RoomOf(MgrNext, A)]_vars

\* C28 witness: with slow mode on in both rooms, carol has just been admitted
\* in one room at the very time of her admission in the other.
AdmittedInBothRooms ==
  /\ lastCall.op = "check_slow_mode_cooldown"
  /\ lastCall.res = TRUE
  /\ \E B \in TwoRooms \ {lastCall.room} :
       /\ is_slow_mode(Mgr, B) /\ is_slow_mode(Mgr, lastCall.room)
       /\ B \in DOMAIN last_message_times
       /\ Get(last_message_times[B], "carol", 0) = lastCall.t
       /\ last_message_times[lastCall.room]["carol"] = lastCall.t

RoomGone(r) ==
  /\ r \notin DOMAIN rooms /\ r \notin DOMAIN slow_mode
  /\ r \notin DOMAIN last_message_times /\ r \notin DOMAIN active_polls

\* C29: under fair scheduling of the handlers a registered connection whose
\* transport is closed is eventually out of its room's list; and a room all
\* of whose connections are closed is eventually gone with its flag, cooldown
\* table and poll, unless an open connection has joined it meanwhile.
ClosedEventuallyRemoved ==
  /\ \A c \in Conns :
       (closed[c] /\ c \in Members(streamer_username[c]))
         ~> (c \notin Members(streamer_username[c]))
  /\ \A r \in RoomNames :
       (r \in DOMAIN rooms /\ \A c \in Members(r) : closed[c])
         ~> (RoomGone(r) \/ \E c \in Members(r) : ~closed[c])

\* The same where the room stays gone once every connection is closed.
RoomStaysGone ==
  \A r \in RoomNames :
    (\A c \in Conns : pc[c] # "idle" /\ closed[c]) ~> [](RoomGone(r))

\* C29 witness: a connection whose transport closed was removed by a
\* broadcast before its handler's cleanup ran, the other by its own cleanup,
\* a frame was handled meanwhile, and the room is gone with its state.
RoomGoneAfterAllClosed ==
  /\ RoomGone("alice")
  /\ \A c \in Conns : closed[c] /\ pc[c] = "done" /\ exitBy[c].how = "close"
  /\ \E c \in Conns : ~exitBy[c].member
  /\ \E c \in Conns : exitBy[c].member
  /\ frames > 0

====
